---- MODULE Spec2Model ----
(***************************************************************************)
(* Draftmate engine: template assignment (engine/preview.py), draft        *)
(* generation (engine/generator.py), the header/row resolver               *)
(* (engine/resolver.py) and the two sets of host predicates                *)
(* (engine/__main__.py for the CLI, email_app.py for the desktop UI).      *)
(*                                                                         *)
(* Python strings are sequences of one-character strings, so that          *)
(* lower(), strip(), substring tests and the e-mail regular expression are *)
(* computed rather than assumed.  Dicts are functions; dict.get(k, d) is   *)
(* Get(d, k, default).                                                     *)
(***************************************************************************)
EXTENDS Integers, Sequences, FiniteSets, TLC

\* ------------------------------------------------------------------------
\* Bounds of the model
\* ------------------------------------------------------------------------
\* longest row list handed to one call
MaxRows == 2

\* the longest row list of the sources without a "generate" column
MaxOtherRows == 2

\* most chunks a template text is put together from
MaxChunks == 2

\* longest name handed to parse_name on its own
MaxNameLen == 5

\* most times resolve_text is applied in a row (to its own output)
MaxResolves == 2

\* most chunks a body handed to _wrap_in_html on its own is put together from
MaxBodyChunks == 3

\* most templates created or imported in one profile of the desktop app
MaxCreated == 2

\* ------------------------------------------------------------------------
\* Python values
\* ------------------------------------------------------------------------
\* Python's None (template ids are non-empty strings, never this one)
None == "None"

\* the empty str
EmptyStr == << >>

\* an empty dict
EmptyDict == [k \in {} |-> 0]

\* "not tid" for a template id: None and "" are falsy
FalsyId(tid) == tid = None \/ tid = ""

\* the value of a header attribute of the resolver that found no header
NoHeader == << None >>

\* "if header:" for a header attribute of the resolver
TruthyHeader(h) == h # NoHeader /\ h # EmptyStr

\* dict.get(key, default)
Get(d, key, default) == IF key \in DOMAIN d THEN d[key] ELSE default

UpperAlpha ==
    << "A","B","C","D","E","F","G","H","I","J","K","L","M",
       "N","O","P","Q","R","S","T","U","V","W","X","Y","Z" >>

LowerAlpha ==
    << "a","b","c","d","e","f","g","h","i","j","k","l","m",
       "n","o","p","q","r","s","t","u","v","w","x","y","z" >>

\* the lower-case letter of each upper-case letter
LowerTable == [c \in { UpperAlpha[k] : k \in 1..26 } |->
                  LowerAlpha[CHOOSE k \in 1..26 : UpperAlpha[k] = c]]

LowerChar(c) == IF c \in DOMAIN LowerTable THEN LowerTable[c] ELSE c

\* str.lower()
Lower(s) == [k \in 1..Len(s) |-> LowerChar(s[k])]

\* the characters str.strip() removes and the regular expression's \s matches
IsSpace(c) == c \in {" ", "\t", "\n", "\r"}

\* str.strip()
Strip(s) ==
    LET keep == {k \in 1..Len(s) : ~IsSpace(s[k])}
    IN  IF keep = {} THEN EmptyStr
        ELSE LET lo == CHOOSE k \in keep : \A m \in keep : k <= m
                 hi == CHOOSE k \in keep : \A m \in keep : k >= m
             IN  SubSeq(s, lo, hi)

\* sub in s
Contains(s, sub) ==
    \/ sub = << >>
    \/ \E k \in 0..(Len(s) - Len(sub)) :
           s[k + 1] = sub[1] /\ SubSeq(s, k + 1, k + Len(sub)) = sub

\* ------------------------------------------------------------------------
\* String literals used by the code
\* ------------------------------------------------------------------------
S_email == << "e","m","a","i","l" >>
S_firm == << "f","i","r","m" >>
S_company == << "c","o","m","p","a","n","y" >>
S_firm_name == << "f","i","r","m"," ","n","a","m","e" >>
S_company_name == << "c","o","m","p","a","n","y"," ","n","a","m","e" >>
S_business == << "b","u","s","i","n","e","s","s" >>
S_generate == << "g","e","n","e","r","a","t","e" >>
S_gen == << "g","e","n" >>
S_first_name == << "f","i","r","s","t"," ","n","a","m","e" >>
S_last_name == << "l","a","s","t"," ","n","a","m","e" >>
S_full_name == << "f","u","l","l"," ","n","a","m","e" >>
S_name == << "n","a","m","e" >>
S_school == << "s","c","h","o","o","l" >>
S_university == << "u","n","i","v","e","r","s","i","t","y" >>
S_prefix == << "p","r","e","f","i","x" >>
S_comma == << "," >>
S_lbrace == << "{" >>

\* {"1", "true", "yes", "y"}
TruthyStrings ==
    { << "1" >>, << "t","r","u","e" >>, << "y","e","s" >>, << "y" >> }

\* ------------------------------------------------------------------------
\* engine/resolver.py: PlaceholderResolver
\* ------------------------------------------------------------------------
RECURSIVE _first_exact_header(_, _)
_first_exact_header(headers, candidates) ==
    IF headers = << >> THEN NoHeader
    ELSE IF Head(headers) \in candidates THEN Head(headers)
    ELSE _first_exact_header(Tail(headers), candidates)

RECURSIVE _first_contains_header(_, _, _)
_first_contains_header(headers, substrings, exclude_substrings) ==
    IF headers = << >> THEN NoHeader
    ELSE LET hl == Lower(Head(headers))
         IN  IF /\ \E sub \in substrings : Contains(hl, sub)
                /\ ~(\E ex \in exclude_substrings : Contains(hl, ex))
             THEN Head(headers)
             ELSE _first_contains_header(Tail(headers), substrings, exclude_substrings)

\* Variant of _company_header: the substring search only.
company_header_contains_only(headers) ==
    _first_contains_header(headers, {S_company, S_firm}, {S_email})

\* self._company_header as __init__ sets it
_company_header(headers) ==
    LET exact == _first_exact_header(headers,
                    {S_firm, S_company, S_firm_name, S_company_name, S_business})
    IN  IF TruthyHeader(exact) THEN exact
        ELSE _first_contains_header(headers, {S_company, S_firm}, {S_email})

\* Variant of _email_header: a header equal to "email" is preferred.
email_header_exact_first(headers) ==
    LET exact == _first_exact_header(headers, {S_email})
    IN  IF TruthyHeader(exact) THEN exact
        ELSE _first_contains_header(headers, {S_email}, {})

\* self._email_header as __init__ sets it
_email_header(headers) == _first_contains_header(headers, {S_email}, {})

\* self._full_name_header and self._school_header as __init__ sets them
_full_name_header(headers) == _first_exact_header(headers, {S_full_name, S_name})

_school_header(headers) ==
    _first_contains_header(headers,
        { S_school, << "c","o","l","l","e","g","e" >>, S_university, << "u","n","i" >> }, {})

\* firm_val of _build_derived_defaults: the "firm" and "firm name" entries of
\* the derived map, which no name parsing enters
firm_val(headers, row) ==
    LET ch == _company_header(headers)
    IN  IF TruthyHeader(ch) THEN Strip(Get(row, ch, EmptyStr)) ELSE EmptyStr

get_email(headers, row) ==
    LET eh == _email_header(headers)
    IN  IF TruthyHeader(eh) THEN Strip(Get(row, eh, EmptyStr))
        ELSE Strip(Get(row, S_email, EmptyStr))

\* self._derived.get("firm", "")
get_firm(headers, row) == firm_val(headers, row)

\* ------------------------------------------------------------------------
\* parse_name: email_app.py (desktop UI) and engine/__main__.py (CLI)
\* ------------------------------------------------------------------------
\* str.split(): the maximal runs of non-space characters, in order
RECURSIVE SplitFrom(_, _, _)
SplitFrom(s, cur, parts) ==
    IF s = << >>
    THEN IF cur = << >> THEN parts ELSE Append(parts, cur)
    ELSE IF IsSpace(Head(s))
         THEN SplitFrom(Tail(s), << >>, IF cur = << >> THEN parts ELSE Append(parts, cur))
         ELSE SplitFrom(Tail(s), Append(cur, Head(s)), parts)

split(s) == SplitFrom(s, << >>, << >>)

\* the index of the first "," of s (s contains one)
FirstComma(s) == CHOOSE k \in 1..Len(s) : s[k] = "," /\ \A m \in 1..(k - 1) : s[m] # ","

\* a returned (first, last) tuple
Pair(first, last) == [raises |-> None, first |-> first, last |-> last]

\* parts[0] of an empty list
IndexError == [raises |-> "IndexError", first |-> EmptyStr, last |-> EmptyStr]

\* EmailApp._parse_name
EmailApp_parse_name(full_name) ==
    IF full_name = EmptyStr THEN Pair(EmptyStr, EmptyStr)
    ELSE LET stripped == Strip(full_name)
         IN  IF Contains(stripped, S_comma)
             THEN LET c == FirstComma(stripped)
                  IN  Pair(Strip(SubSeq(stripped, c + 1, Len(stripped))),
                           Strip(SubSeq(stripped, 1, c - 1)))
             ELSE LET parts == split(stripped)
                  IN  IF Len(parts) = 1 THEN Pair(parts[1], EmptyStr)
                      ELSE IF parts = << >> THEN IndexError
                      ELSE Pair(parts[1], parts[Len(parts)])

\* _parse_name of the CLI
_parse_name(full_name) ==
    IF full_name = EmptyStr THEN Pair(EmptyStr, EmptyStr)
    ELSE LET stripped == Strip(full_name)
         IN  IF Contains(stripped, S_comma)
             THEN LET c == FirstComma(stripped)
                  IN  Pair(Strip(SubSeq(stripped, c + 1, Len(stripped))),
                           Strip(SubSeq(stripped, 1, c - 1)))
             ELSE LET parts == split(stripped)
                  IN  IF Len(parts) = 1 THEN Pair(parts[1], EmptyStr)
                      ELSE IF parts = << >> THEN IndexError
                      ELSE Pair(parts[1], parts[Len(parts)])

\* the parse_name_fn the host hands to the engine
parse_name_fn(h, full_name) ==
    IF h = "app" THEN EmailApp_parse_name(full_name) ELSE _parse_name(full_name)

\* ------------------------------------------------------------------------
\* engine/resolver.py: derived values and placeholder resolution
\* ------------------------------------------------------------------------
\* Variant of _build_derived_defaults: the prefix also replaces "last name".
build_derived_prefix_in_last(h, headers, row) ==
    LET fnh == _full_name_header(headers)
        full0 == IF TruthyHeader(fnh) THEN Strip(Get(row, fnh, EmptyStr)) ELSE EmptyStr
        p0 == parse_name_fn(h, full0)
        sh == _school_header(headers)
        school_val == IF TruthyHeader(sh) THEN Strip(Get(row, sh, EmptyStr)) ELSE EmptyStr
        fallback == IF full0 = EmptyStr /\ (\E k \in 1..Len(headers) : headers[k] = S_name)
                    THEN Strip(Get(row, S_name, EmptyStr))
                    ELSE EmptyStr
        full_name_val == IF fallback # EmptyStr THEN fallback ELSE full0
        p == IF fallback # EmptyStr /\ p0.first = EmptyStr /\ p0.last = EmptyStr
             THEN parse_name_fn(h, fallback)
             ELSE p0
        firm == firm_val(headers, row)
        has_prefix == \E k \in 1..Len(headers) : headers[k] = S_prefix
        prefix_val == IF has_prefix THEN Strip(Get(row, S_prefix, EmptyStr)) ELSE EmptyStr
        first_name == IF prefix_val # EmptyStr
                      THEN IF p.last # EmptyStr
                           THEN prefix_val \o << ".", " " >> \o p.last
                           ELSE prefix_val \o << "." >>
                      ELSE p.first
    IN  (S_first_name :> first_name) @@
        (S_last_name :> IF prefix_val # EmptyStr THEN first_name ELSE p.last) @@
        (S_full_name :> full_name_val) @@
        (S_firm :> firm) @@
        (S_firm_name :> firm) @@
        (S_school :> school_val)

\* Variant of _build_derived_defaults: no fallback to a "name" column.
build_derived_no_fallback(h, headers, row) ==
    LET fnh == _full_name_header(headers)
        full0 == IF TruthyHeader(fnh) THEN Strip(Get(row, fnh, EmptyStr)) ELSE EmptyStr
        p == parse_name_fn(h, full0)
        sh == _school_header(headers)
        school_val == IF TruthyHeader(sh) THEN Strip(Get(row, sh, EmptyStr)) ELSE EmptyStr
        firm == firm_val(headers, row)
        has_prefix == \E k \in 1..Len(headers) : headers[k] = S_prefix
        prefix_val == IF has_prefix THEN Strip(Get(row, S_prefix, EmptyStr)) ELSE EmptyStr
        first_name == IF prefix_val # EmptyStr
                      THEN IF p.last # EmptyStr
                           THEN prefix_val \o << ".", " " >> \o p.last
                           ELSE prefix_val \o << "." >>
                      ELSE p.first
    IN  (S_first_name :> first_name) @@
        (S_last_name :> p.last) @@
        (S_full_name :> full0) @@
        (S_firm :> firm) @@
        (S_firm_name :> firm) @@
        (S_school :> school_val)

\* self._derived: the map of the six derived keys
_build_derived_defaults(h, headers, row) ==
    LET fnh == _full_name_header(headers)
        full0 == IF TruthyHeader(fnh) THEN Strip(Get(row, fnh, EmptyStr)) ELSE EmptyStr
        p0 == parse_name_fn(h, full0)
        sh == _school_header(headers)
        school_val == IF TruthyHeader(sh) THEN Strip(Get(row, sh, EmptyStr)) ELSE EmptyStr
        fallback == IF full0 = EmptyStr /\ (\E k \in 1..Len(headers) : headers[k] = S_name)
                    THEN Strip(Get(row, S_name, EmptyStr))
                    ELSE EmptyStr
        full_name_val == IF fallback # EmptyStr THEN fallback ELSE full0
        p == IF fallback # EmptyStr /\ p0.first = EmptyStr /\ p0.last = EmptyStr
             THEN parse_name_fn(h, fallback)
             ELSE p0
        firm == firm_val(headers, row)
        has_prefix == \E k \in 1..Len(headers) : headers[k] = S_prefix
        prefix_val == IF has_prefix THEN Strip(Get(row, S_prefix, EmptyStr)) ELSE EmptyStr
        first_name == IF prefix_val # EmptyStr
                      THEN IF p.last # EmptyStr
                           THEN prefix_val \o << ".", " " >> \o p.last
                           ELSE prefix_val \o << "." >>
                      ELSE p.first
    IN  (S_first_name :> first_name) @@
        (S_last_name :> p.last) @@
        (S_full_name :> full_name_val) @@
        (S_firm :> firm) @@
        (S_firm_name :> firm) @@
        (S_school :> school_val)

\* the object PlaceholderResolver(headers, row, parse_name_fn) constructs
PlaceholderResolver(h, headers, row) ==
    [headers |-> headers,
     row |-> row,
     full_name_header |-> _full_name_header(headers),
     company_header |-> _company_header(headers),
     school_header |-> _school_header(headers),
     email_header |-> _email_header(headers),
     derived |-> _build_derived_defaults(h, headers, row)]

\* "for h in self.headers: if h == key: return self.row.get(h, '').strip()"
RECURSIVE HeaderValue(_, _, _)
HeaderValue(headers, row, key) ==
    IF headers = << >> THEN EmptyStr
    ELSE IF Head(headers) = key THEN Strip(Get(row, key, EmptyStr))
    ELSE HeaderValue(Tail(headers), row, key)

\* Variant of _resolve_token: a column header is looked up before the
\* derived keys.
resolve_token_header_first(self, token_text) ==
    LET key == Lower(Strip(token_text))
    IN  IF \E k \in 1..Len(self.headers) : self.headers[k] = key
        THEN HeaderValue(self.headers, self.row, key)
        ELSE IF key \in DOMAIN self.derived THEN self.derived[key]
        ELSE EmptyStr

_resolve_token(self, token_text) ==
    LET key == Lower(Strip(token_text))
    IN  IF key \in DOMAIN self.derived THEN self.derived[key]
        ELSE HeaderValue(self.headers, self.row, key)

\* where the match of \{([^{}]+)\} that starts at position p ends; 0 when
\* the pattern does not match at p
MatchEnd(text, p) ==
    IF text[p] # "{" THEN 0
    ELSE LET braces == { k \in (p + 1)..Len(text) : text[k] \in {"{", "}"} }
         IN  IF braces = {} THEN 0
             ELSE LET e == CHOOSE k \in braces : \A m \in braces : k <= m
                  IN  IF text[e] = "}" /\ e > p + 1 THEN e ELSE 0

\* Variant of PatternSub: the text is scanned again from the start of each
\* substituted value.
RECURSIVE PatternSub_rescans(_, _, _)
PatternSub_rescans(self, text, p) ==
    IF p > Len(text) THEN EmptyStr
    ELSE LET e == MatchEnd(text, p)
         IN  IF e = 0
             THEN << text[p] >> \o PatternSub_rescans(self, text, p + 1)
             ELSE PatternSub_rescans(self,
                      _resolve_token(self, SubSeq(text, p + 1, e - 1)) \o
                      SubSeq(text, e + 1, Len(text)), 1)

\* pattern.sub(_sub, text) from position p on: matches are found left to
\* right and do not overlap; what lies between them is copied
RECURSIVE PatternSub(_, _, _)
PatternSub(self, text, p) ==
    IF p > Len(text) THEN EmptyStr
    ELSE LET e == MatchEnd(text, p)
         IN  IF e = 0
             THEN << text[p] >> \o PatternSub(self, text, p + 1)
             ELSE _resolve_token(self, SubSeq(text, p + 1, e - 1)) \o
                  PatternSub(self, text, e + 1)

\* where a match of \{?([^{}]+)\} that starts at position p ends, and where
\* its token starts; end 0 when that pattern does not match at p
LooseMatch(text, p) ==
    LET q == IF text[p] = "{" THEN p + 1 ELSE p
        braces == { k \in q..Len(text) : text[k] \in {"{", "}"} }
    IN  IF braces = {} THEN [from |-> q, end |-> 0]
        ELSE LET e == CHOOSE k \in braces : \A m \in braces : k <= m
             IN  [from |-> q, end |-> IF text[e] = "}" /\ e > q THEN e ELSE 0]

RECURSIVE LoosePatternSub(_, _, _)
LoosePatternSub(self, text, p) ==
    IF p > Len(text) THEN EmptyStr
    ELSE LET m == LooseMatch(text, p)
         IN  IF m.end = 0
             THEN << text[p] >> \o LoosePatternSub(self, text, p + 1)
             ELSE _resolve_token(self, SubSeq(text, m.from, m.end - 1)) \o
                  LoosePatternSub(self, text, m.end + 1)

\* Variant of resolve_text: no early return, and the opening brace of a
\* placeholder is optional.
resolve_text_optional_open(self, text) == LoosePatternSub(self, text, 1)

resolve_text(self, text) ==
    IF text = EmptyStr \/ ~Contains(text, S_lbrace) THEN text
    ELSE PatternSub(self, text, 1)

get_first_last(self) == << self.derived[S_first_name], self.derived[S_last_name] >>

get_full_name(self) == self.derived[S_full_name]

\* ------------------------------------------------------------------------
\* Host predicates: email_app.py (desktop UI) and engine/__main__.py (CLI)
\* ------------------------------------------------------------------------
\* re.match(r"^[^@\s]+@[^@\s]+\.[^@\s]+$", s) without the "$ before a final
\* newline" case
EmailShape(s) ==
    /\ \A k \in 1..Len(s) : ~IsSpace(s[k])
    /\ Cardinality({k \in 1..Len(s) : s[k] = "@"}) = 1
    /\ LET at == CHOOSE k \in 1..Len(s) : s[k] = "@"
       IN  /\ at > 1
           /\ \E d \in (at + 2)..(Len(s) - 1) : s[d] = "."

\* EMAIL_RE.match(s): "$" matches at the end and before a final newline
EMAIL_RE(s) ==
    \/ EmailShape(s)
    \/ /\ Len(s) > 0
       /\ s[Len(s)] = "\n"
       /\ EmailShape(SubSeq(s, 1, Len(s) - 1))

EmailApp_parse_bool(val) == Lower(Strip(val)) \in TruthyStrings

EmailApp_is_generate_true(row) == EmailApp_parse_bool(Get(row, S_generate, EmptyStr))

EmailApp_is_email_valid(email) == email # EmptyStr /\ EMAIL_RE(email)

_parse_bool(val) == Lower(Strip(val)) \in TruthyStrings

_is_generate_true(row) ==
    LET has(key) == \E k \in DOMAIN row : Lower(k) = key
        real_key(key) == CHOOSE k \in DOMAIN row : Lower(k) = key
    IN  IF has(S_generate) THEN _parse_bool(row[real_key(S_generate)])
        ELSE IF has(S_gen) THEN _parse_bool(row[real_key(S_gen)])
        ELSE TRUE

_is_email_valid(email) ==
    IF email = EmptyStr THEN FALSE
    ELSE LET e == Strip(email)
         IN  IF e = EmptyStr \/ ~Contains(e, << "@" >>) THEN FALSE
             ELSE EMAIL_RE(e)

\* the predicates the host passes to the engine
Hosts == {"app", "cli"}

is_generate_true_fn(h, row) ==
    IF h = "app" THEN EmailApp_is_generate_true(row) ELSE _is_generate_true(row)

is_email_valid_fn(h, email) ==
    IF h = "app" THEN EmailApp_is_email_valid(email) ELSE _is_email_valid(email)

\* ------------------------------------------------------------------------
\* engine/preview.py
\* ------------------------------------------------------------------------
\* the value of "t" / "chosen" when no template was found (Python's None)
NoTemplate == [id |-> None, name |-> "", text |-> EmptyStr, manual_only |-> FALSE]

\* the template_name of an entry without a template (the source's en dash)
DASH == "-"

\* Variant of _template_by_id that looks among the rotatable templates only.
RECURSIVE template_by_id_rotatable_only(_, _)
template_by_id_rotatable_only(templates_, tid) ==
    IF templates_ = << >> THEN NoTemplate
    ELSE IF Head(templates_).id = tid /\ ~Head(templates_).manual_only THEN Head(templates_)
    ELSE template_by_id_rotatable_only(Tail(templates_), tid)

\* Variant of _template_by_id that answers an unknown id with the first template.
template_by_id_default_first(templates_, tid) ==
    IF \E k \in 1..Len(templates_) : templates_[k].id = tid
    THEN templates_[CHOOSE k \in 1..Len(templates_) :
                       /\ templates_[k].id = tid
                       /\ \A m \in 1..(k - 1) : templates_[m].id # tid]
    ELSE IF templates_ = << >> THEN NoTemplate
    ELSE templates_[1]

RECURSIVE _template_by_id(_, _)
_template_by_id(templates_, tid) ==
    IF templates_ = << >> THEN NoTemplate
    ELSE IF Head(templates_).id = tid THEN Head(templates_)
    ELSE _template_by_id(Tail(templates_), tid)

_rotatable_templates(templates_) ==
    SelectSeq(templates_, LAMBDA t : ~t.manual_only)

\* Variants of choose_template_for_row, one deviation each:
\*   index_from_count   the index is count mod len(rot), without the "- 1"
\*   count_overrides    an overridden row advances its firm's counter too
\*   stale_gets_none    an override naming an unknown id yields (None, False)
\*   shared_counter     every row counts under the key ""
\*   count_before_check the counter advances before the test for an empty
\*                      rotation list
\*   lowercase_key      the counter key is the firm in lower case
choose_template_variant(row, headers_lower, templates_, overrides_, firm_counts_, variant) ==
    LET email == Strip(Lower(get_email(headers_lower, row)))
        firm == get_firm(headers_lower, row)
        tid == Get(overrides_, email, None)
        t == _template_by_id(templates_, tid)
        rot == _rotatable_templates(templates_)
        firm_key == IF variant = "shared_counter" THEN EmptyStr
                    ELSE IF variant = "lowercase_key" THEN Lower(firm)
                    ELSE firm
        n == Get(firm_counts_, firm_key, 0) + 1
        idx == IF variant = "index_from_count" THEN n % Len(rot) ELSE (n - 1) % Len(rot)
        bumped == [k \in DOMAIN firm_counts_ \cup {firm_key} |->
                      IF k = firm_key THEN n ELSE firm_counts_[k]]
        in_map == email # EmptyStr /\ email \in DOMAIN overrides_
    IN  IF in_map /\ t # NoTemplate
        THEN [t |-> t, is_manual |-> TRUE,
              firm_counts |-> IF variant = "count_overrides" THEN bumped ELSE firm_counts_]
        ELSE IF rot = << >> \/ (in_map /\ variant = "stale_gets_none")
        THEN [t |-> NoTemplate, is_manual |-> FALSE,
              firm_counts |-> IF variant = "count_before_check" THEN bumped ELSE firm_counts_]
        ELSE [t |-> rot[idx + 1], is_manual |-> FALSE, firm_counts |-> bumped]

choose_template_index_from_count(row, headers_lower, templates_, overrides_, firm_counts_) ==
    choose_template_variant(row, headers_lower, templates_, overrides_, firm_counts_,
                            "index_from_count")

choose_template_count_overrides(row, headers_lower, templates_, overrides_, firm_counts_) ==
    choose_template_variant(row, headers_lower, templates_, overrides_, firm_counts_,
                            "count_overrides")

choose_template_stale_gets_none(row, headers_lower, templates_, overrides_, firm_counts_) ==
    choose_template_variant(row, headers_lower, templates_, overrides_, firm_counts_,
                            "stale_gets_none")

choose_template_shared_counter(row, headers_lower, templates_, overrides_, firm_counts_) ==
    choose_template_variant(row, headers_lower, templates_, overrides_, firm_counts_,
                            "shared_counter")

choose_template_count_before_check(row, headers_lower, templates_, overrides_, firm_counts_) ==
    choose_template_variant(row, headers_lower, templates_, overrides_, firm_counts_,
                            "count_before_check")

choose_template_lowercase_key(row, headers_lower, templates_, overrides_, firm_counts_) ==
    choose_template_variant(row, headers_lower, templates_, overrides_, firm_counts_,
                            "lowercase_key")

\* Returns the chosen template (or NoTemplate), is_manual, and the firm_counts
\* dict as the call leaves it (Python mutates the dict it is given).
choose_template_for_row(row, headers_lower, templates_, overrides_, firm_counts_) ==
    LET email == Strip(Lower(get_email(headers_lower, row)))
        firm == get_firm(headers_lower, row)
        tid == Get(overrides_, email, None)
        t == _template_by_id(templates_, tid)
        rot == _rotatable_templates(templates_)
        firm_key == firm
        n == Get(firm_counts_, firm_key, 0) + 1
        idx == (n - 1) % Len(rot)
    IN  IF email # EmptyStr /\ email \in DOMAIN overrides_ /\ t # NoTemplate
        THEN [t |-> t, is_manual |-> TRUE, firm_counts |-> firm_counts_]
        ELSE IF rot = << >>
        THEN [t |-> NoTemplate, is_manual |-> FALSE, firm_counts |-> firm_counts_]
        ELSE [t |-> rot[idx + 1], is_manual |-> FALSE,
              firm_counts |-> [k \in DOMAIN firm_counts_ \cup {firm_key} |->
                                  IF k = firm_key THEN n ELSE firm_counts_[k]]]

\* Variant of name_display: the prefix column is not looked at.
name_display_no_prefix(self, row) ==
    LET first == get_first_last(self)[1]
        last == get_first_last(self)[2]
    IN  Strip(first \o (IF last # EmptyStr THEN << " " >> \o last ELSE EmptyStr))

\* "name_display" of the loop body of build_preview_rows
name_display(self, row) ==
    LET first == get_first_last(self)[1]
        last == get_first_last(self)[2]
        full_name == get_full_name(self)
        prefix_val == Strip(Get(row, S_prefix, EmptyStr))
    IN  IF prefix_val # EmptyStr
        THEN first \o << " ", "(" >> \o full_name \o << ")" >>
        ELSE Strip(first \o (IF last # EmptyStr THEN << " " >> \o last ELSE EmptyStr))

\* "eligible" of the loop body of build_preview_rows
Eligible(h, headers_lower, row) ==
    /\ is_generate_true_fn(h, row)
    /\ is_email_valid_fn(h, get_email(headers_lower, row))

\* Variant of PreviewIteration that runs the selector for every emitted row and
\* blanks the template of an ineligible one afterwards.
PreviewIteration_selects_first(h, row, headers_lower, templates_, overrides_, only, out_, firm_counts_) ==
    LET email_display == get_email(headers_lower, row)
        eligible == Eligible(h, headers_lower, row)
        c == choose_template_for_row(row, headers_lower, templates_, overrides_, firm_counts_)
        chosen == IF eligible THEN c.t ELSE NoTemplate
        entry == [name |-> name_display(PlaceholderResolver(h, headers_lower, row), row),
                  email |-> email_display,
                  email_norm |-> Strip(Lower(email_display)),
                  firm |-> get_firm(headers_lower, row),
                  template_name |-> IF chosen # NoTemplate THEN chosen.name ELSE DASH,
                  template_id |-> IF chosen # NoTemplate THEN chosen.id ELSE None,
                  is_manual |-> IF chosen # NoTemplate THEN c.is_manual ELSE FALSE,
                  is_eligible |-> eligible]
    IN  IF only /\ ~eligible
        THEN [out |-> out_, firm_counts |-> firm_counts_]
        ELSE [out |-> Append(out_, entry), firm_counts |-> c.firm_counts]

\* Variant of PreviewIteration without the "continue" for an ineligible row
\* of a pass with only_recipients.
PreviewIteration_emits_all(h, row, headers_lower, templates_, overrides_, only, out_, firm_counts_) ==
    LET email_display == get_email(headers_lower, row)
        eligible == Eligible(h, headers_lower, row)
        c == IF eligible
             THEN choose_template_for_row(row, headers_lower, templates_, overrides_, firm_counts_)
             ELSE [t |-> NoTemplate, is_manual |-> FALSE, firm_counts |-> firm_counts_]
        chosen == c.t
        entry == [name |-> name_display(PlaceholderResolver(h, headers_lower, row), row),
                  email |-> email_display,
                  email_norm |-> Strip(Lower(email_display)),
                  firm |-> get_firm(headers_lower, row),
                  template_name |-> IF chosen # NoTemplate THEN chosen.name ELSE DASH,
                  template_id |-> IF chosen # NoTemplate THEN chosen.id ELSE None,
                  is_manual |-> IF chosen # NoTemplate THEN c.is_manual ELSE FALSE,
                  is_eligible |-> eligible]
    IN  [out |-> Append(out_, entry), firm_counts |-> c.firm_counts]

\* One iteration of the loop of build_preview_rows over "row": the entries and
\* the counters as the iteration leaves them.
PreviewIteration(h, row, headers_lower, templates_, overrides_, only, out_, firm_counts_) ==
    LET email_display == get_email(headers_lower, row)
        email_norm == Strip(Lower(email_display))
        eligible == Eligible(h, headers_lower, row)
        firm == get_firm(headers_lower, row)
        c == IF eligible
             THEN choose_template_for_row(row, headers_lower, templates_, overrides_, firm_counts_)
             ELSE [t |-> NoTemplate, is_manual |-> FALSE, firm_counts |-> firm_counts_]
        chosen == c.t
        entry == [name |-> name_display(PlaceholderResolver(h, headers_lower, row), row),
                  email |-> email_display,
                  email_norm |-> email_norm,
                  firm |-> firm,
                  template_name |-> IF chosen # NoTemplate THEN chosen.name ELSE DASH,
                  template_id |-> IF chosen # NoTemplate THEN chosen.id ELSE None,
                  is_manual |-> IF chosen # NoTemplate THEN c.is_manual ELSE FALSE,
                  is_eligible |-> eligible]
    IN  IF only /\ ~eligible
        THEN [out |-> out_, firm_counts |-> firm_counts_]
        ELSE [out |-> Append(out_, entry), firm_counts |-> c.firm_counts]

\* ------------------------------------------------------------------------
\* engine/generator.py
\* ------------------------------------------------------------------------
\* Variant of _build_rows_by_email: the first row with an email is kept.
RECURSIVE rows_by_email_first_wins(_, _, _)
rows_by_email_first_wins(rows_, headers_lower, result) ==
    IF rows_ = << >> THEN result
    ELSE LET r == Head(rows_)
             email == Strip(Lower(get_email(headers_lower, r)))
             next == IF email # EmptyStr /\ email \notin DOMAIN result
                     THEN [k \in DOMAIN result \cup {email} |->
                              IF k = email THEN r ELSE result[k]]
                     ELSE result
         IN  rows_by_email_first_wins(Tail(rows_), headers_lower, next)

RECURSIVE _build_rows_by_email(_, _, _)
_build_rows_by_email(rows_, headers_lower, result) ==
    IF rows_ = << >> THEN result
    ELSE LET r == Head(rows_)
             email == Strip(Lower(get_email(headers_lower, r)))
             next == IF email # EmptyStr
                     THEN [k \in DOMAIN result \cup {email} |->
                              IF k = email THEN r ELSE result[k]]
                     ELSE result
         IN  _build_rows_by_email(Tail(rows_), headers_lower, next)

\* {t["id"]: t for t in templates}: a later template replaces an earlier one
\* of the same id
RECURSIVE templates_by_id(_, _)
templates_by_id(templates_, result) ==
    IF templates_ = << >> THEN result
    ELSE LET t == Head(templates_)
         IN  templates_by_id(Tail(templates_),
                 [k \in DOMAIN result \cup {t.id} |-> IF k = t.id THEN t ELSE result[k]])

\* Variant of GenerateIteration that looks the row up by the display email.
GenerateIteration_display_lookup(p, rows_by_email_, templates_) ==
    LET email_display == p.email
        tid == p.template_id
        by_id == templates_by_id(templates_, EmptyDict)
    IN  IF email_display = EmptyStr \/ FalsyId(tid) THEN [skip |-> TRUE]
        ELSE IF email_display \notin DOMAIN rows_by_email_ THEN [skip |-> TRUE]
        ELSE IF tid \notin DOMAIN by_id THEN [skip |-> TRUE]
        ELSE [skip |-> FALSE,
              to |-> email_display,
              row |-> rows_by_email_[email_display],
              text |-> by_id[tid].text]

\* The part of the loop body of generate_emails before the dry_run test:
\* "skip" when one of the "continue" statements is taken, else the draft.
GenerateIteration(p, rows_by_email_, templates_) ==
    LET email_display == p.email
        email_norm == IF p.email_norm # EmptyStr THEN p.email_norm
                      ELSE Strip(Lower(email_display))
        tid == p.template_id
        by_id == templates_by_id(templates_, EmptyDict)
    IN  IF email_norm = EmptyStr \/ FalsyId(tid) THEN [skip |-> TRUE]
        ELSE IF email_norm \notin DOMAIN rows_by_email_ THEN [skip |-> TRUE]
        ELSE IF tid \notin DOMAIN by_id THEN [skip |-> TRUE]
        ELSE [skip |-> FALSE,
              to |-> IF email_display # EmptyStr THEN email_display ELSE email_norm,
              row |-> rows_by_email_[email_norm],
              text |-> by_id[tid].text]

\* str.replace: every non-overlapping occurrence of "old", left to right
RECURSIVE str_replace(_, _, _)
str_replace(s, old, new) ==
    IF Len(s) < Len(old) THEN s
    ELSE IF SubSeq(s, 1, Len(old)) = old
    THEN new \o str_replace(SubSeq(s, Len(old) + 1, Len(s)), old, new)
    ELSE << s[1] >> \o str_replace(Tail(s), old, new)

\* str.lstrip(chars) and str.rstrip(chars): the argument is a set of characters
RECURSIVE lstrip(_, _)
lstrip(s, chars) ==
    IF s # << >> /\ s[1] \in chars THEN lstrip(Tail(s), chars) ELSE s

RECURSIVE rstrip(_, _)
rstrip(s, chars) ==
    IF s # << >> /\ s[Len(s)] \in chars THEN rstrip(SubSeq(s, 1, Len(s) - 1), chars) ELSE s

S_br == << "<","b","r",">" >>

\* _wrap_in_html
_wrap_in_html(text_) ==
    LET stripped == Strip(text_)
        html_content == Strip(str_replace(str_replace(stripped, << " "," " >>, S_br \o S_br),
                                          << "\n" >>, S_br))
        chars == { S_br[k] : k \in 1..Len(S_br) }
        trimmed == rstrip(lstrip(html_content, chars), chars)
        open == << "<","h","t","m","l",">","<","b","o","d","y"," ",
                   "s","t","y","l","e","=","'",
                   "m","a","r","g","i","n",":","0",";",
                   "p","a","d","d","i","n","g",":","0",";",
                   "f","o","n","t","-","f","a","m","i","l","y",":",
                   "A","r","i","a","l",",","s","a","n","s","-","s","e","r","i","f",";",
                   "'",">" >>
        close == << "<","/","b","o","d","y",">","<","/","h","t","m","l",">" >>
    IN  Strip(open \o trimmed \o close)

\* Variant of DraftArguments: the body is passed as resolved, without the
\* HTML wrapping.
DraftArguments_plain_body(h, headers, d, subject_template_, resume_path_) ==
    LET self == PlaceholderResolver(h, headers, d.row)
    IN  [to |-> d.to,
         subject |-> resolve_text(self, subject_template_),
         body |-> resolve_text(self, d.text),
         resume_path |-> resume_path_]

\* The rest of the loop body of generate_emails for a draft d that was not
\* skipped: the keyword arguments of the _create_outlook_draft call.
DraftArguments(h, headers, d, subject_template_, resume_path_) ==
    LET self == PlaceholderResolver(h, headers, d.row)
        subject == resolve_text(self, subject_template_)
        body_plain == resolve_text(self, d.text)
    IN  [to |-> d.to,
         subject |-> subject,
         body |-> _wrap_in_html(body_plain),
         resume_path |-> resume_path_]

\* build_preview_rows run to completion from the first row: fresh "out" and
\* "firm_counts", then one PreviewIteration per row in order
RECURSIVE PreviewLoop(_, _, _, _, _, _, _)
PreviewLoop(h, rows_, headers_lower, templates_, overrides_, only, acc) ==
    IF rows_ = << >> THEN acc
    ELSE PreviewLoop(h, Tail(rows_), headers_lower, templates_, overrides_, only,
             PreviewIteration(h, Head(rows_), headers_lower, templates_, overrides_,
                              only, acc.out, acc.firm_counts))

build_preview_rows(h, rows_, headers_lower, templates_, overrides_, only) ==
    PreviewLoop(h, rows_, headers_lower, templates_, overrides_, only,
                [out |-> << >>, firm_counts |-> EmptyDict]).out

\* ------------------------------------------------------------------------
\* Inputs: data sets (headers and rows), template lists, override maps
\* ------------------------------------------------------------------------
V_Ac == << "A","c" >>
V_Be == << "B","e" >>
E_a == << "a","@","x",".","c" >>
E_B == << "B","@","x",".","c" >>
E_b == << "b","@","x",".","c" >>
E_c == << "c","@","x",".","c" >>
E_e == << "e","@","x",".","c" >>
G_true == << "t","r","u","e" >>
G_Yes == << "Y","e","s" >>
G_1 == << "1" >>
G_no == << "n","o" >>

\* a row of a source with the columns firm, email and a generate column "g"
Row(firm, email, g, generate) ==
    (S_firm :> firm) @@ (S_email :> email) @@ (g :> generate)

\* a row of a source with the columns "company name" and "email" only
RowNoGenerate(firm, email) == (S_company_name :> firm) @@ (S_email :> email)

H_generate == << S_firm, S_email, S_generate >>

\* the four rows of the rotation example: one firm, all eligible
ExampleRows ==
    << Row(V_Ac, E_a, S_generate, G_true), Row(V_Ac, E_B, S_generate, G_Yes),
       Row(V_Ac, E_a, S_generate, G_true), Row(V_Ac, E_B, S_generate, G_Yes) >>

\* all sequences over S of length at most n
SeqsUpTo(S, n) == UNION { [1..k -> S] : k \in 0..n }

\* the header list of a data source and the row lists it may deliver
DataSets ==
    { [headers |-> H_generate,
       rows |-> SeqsUpTo({ Row(V_Ac, E_a, S_generate, G_true),
                           Row(V_Ac, E_B, S_generate, G_Yes),
                           Row(V_Ac, E_e, S_generate, G_no) }, MaxRows)],
      [headers |-> H_generate,
       rows |-> SeqsUpTo({ Row(V_Ac, E_a, S_generate, G_true),
                           Row(V_Be, E_c, S_generate, G_1) }, MaxRows)],
      [headers |-> H_generate,
       rows |-> { ExampleRows,
                  << Row(V_Ac, E_a, S_generate, G_true), Row(V_Ac, E_e, S_generate, G_no),
                     Row(V_Ac, E_B, S_generate, G_Yes), Row(V_Be, E_c, S_generate, G_1) >> }],
      [headers |-> H_generate,
       rows |-> SeqsUpTo({ Row(V_Ac, E_B, S_generate, G_true),
                           Row(V_Be, E_b, S_generate, G_true),
                           Row(V_Ac, EmptyStr, S_generate, G_true) }, MaxOtherRows)],
      [headers |-> H_generate,
       rows |-> { << Row(V_Ac, E_a, S_generate, G_true),
                     Row(<< "a","c" >>, E_B, S_generate, G_true),
                     Row(EmptyStr, E_c, S_generate, G_true),
                     Row(V_Ac, E_b, S_generate, G_true) >> }],
      [headers |-> << S_email, S_generate >>,
       rows |-> { << (S_email :> E_a) @@ (S_generate :> G_true),
                     (S_email :> E_B) @@ (S_generate :> G_Yes),
                     (S_email :> E_c) @@ (S_generate :> G_true) >> }],
      [headers |-> << S_firm, S_email, S_gen >>,
       rows |-> SeqsUpTo({ Row(V_Ac, E_a, S_gen, << "y" >>),
                           Row(V_Ac, E_B, S_gen, G_no) }, MaxOtherRows)],
      [headers |-> << S_company_name, S_email >>,
       rows |-> SeqsUpTo({ RowNoGenerate(V_Ac, E_a),
                           RowNoGenerate(V_Ac, << "d","@","x" >>) }, MaxOtherRows)] }

Template(id, name, manual_only, text_) ==
    [id |-> id, name |-> name, text |-> text_, manual_only |-> manual_only]

\* template texts: "A {firm}", "B  {Firm Name} " (two blanks, a trailing
\* blank), "C, {x}" and a line break before "{email}"
T_A == Template("idA", "A", FALSE, << "A"," ","{","f","i","r","m","}" >>)
T_B == Template("idB", "B", FALSE, << "B"," "," ","{","F","i","r","m"," ","N","a","m","e","}"," " >>)
T_C == Template("idC", "C", FALSE, << "C",","," ","{","x","}" >>)
T_M == Template("idM", "M", TRUE, << "M","\n","{","e","m","a","i","l","}" >>)

\* subject templates and resume paths of the caller; the CLI passes None
\* for a missing --resume
Subject_firm == << "R","e"," ","{","f","i","r","m","}" >>
Resume_cv == << "c","v",".","p","d","f" >>
NoPath == << None >>

\* The caller's template list and override map.  "idZ" is the id of no
\* template, and "idM" is the id of none in the first list.
Profiles ==
    { [templates |-> << T_A, T_B, T_C >>, overrides |-> EmptyDict,
       subject |-> Subject_firm, resume |-> Resume_cv],
      [templates |-> << T_A, T_M, T_B >>, overrides |-> (E_a :> "idM") @@ (E_c :> "idZ"),
       subject |-> Subject_firm, resume |-> NoPath],
      [templates |-> << T_A, T_M, T_B >>, overrides |-> (E_b :> "idB"),
       subject |-> EmptyStr, resume |-> Resume_cv],
      [templates |-> << T_M >>, overrides |-> (E_b :> "idM") @@ (E_c :> "idZ"),
       subject |-> Subject_firm, resume |-> Resume_cv],
      [templates |-> << >>, overrides |-> (E_a :> "idM"),
       subject |-> Subject_firm, resume |-> NoPath] }

\* ------------------------------------------------------------------------
\* State
\* ------------------------------------------------------------------------
VARIABLES
    rows, headers_lower, templates, recipient_template_overrides, host,
    subject_template, resume_path,
    pc, call, i, out, firm_counts,
    preview_rows, rows_by_email, j, count, sink,
    prev,
    rpc, resolver, text, results, name_arg, parsed,
    uuid_count

inputs == << rows, headers_lower, templates, recipient_template_overrides, host,
             subject_template, resume_path >>
preview_locals == << i, out, firm_counts >>
generate_locals == << preview_rows, rows_by_email, j, count, sink >>
resolver_vars == << rpc, resolver, text, results, name_arg, parsed >>
vars == << inputs, pc, call, preview_locals, generate_locals, prev, resolver_vars,
           uuid_count >>

NoCall == [fn |-> "none", only_recipients |-> TRUE, dry_run |-> FALSE]

\* the entry list the last completed build_preview_rows pass returned
NoPrev == [fn |-> "none", only_recipients |-> TRUE, out |-> << >>]

\* no PlaceholderResolver object has been constructed
NoResolver ==
    [headers |-> << >>, row |-> EmptyDict, full_name_header |-> NoHeader,
     company_header |-> NoHeader, school_header |-> NoHeader,
     email_header |-> NoHeader, derived |-> EmptyDict]

\* parse_name has not been called
NotParsed == [raises |-> "not called", first |-> EmptyStr, last |-> EmptyStr]

\* the resolver is exercised on its own in ResolverSpec only
ResolverOff ==
    /\ rpc = "off"
    /\ resolver = NoResolver
    /\ text = EmptyStr
    /\ results = << >>
    /\ name_arg = EmptyStr
    /\ parsed = NotParsed

Init ==
    /\ ResolverOff
    /\ uuid_count = 0
    /\ \E d \in DataSets :
           /\ headers_lower = d.headers
           /\ rows \in d.rows
    /\ \E p \in Profiles :
           /\ templates = p.templates
           /\ recipient_template_overrides = p.overrides
           /\ subject_template = p.subject
           /\ resume_path = p.resume
    /\ host \in Hosts
    /\ pc = "idle"
    /\ call = NoCall
    /\ i = 0
    /\ out = << >>
    /\ firm_counts = EmptyDict
    /\ preview_rows = << >>
    /\ rows_by_email = EmptyDict
    /\ j = 0
    /\ count = 0
    /\ sink = << >>
    /\ prev = NoPrev

\* no call is running: nothing ran yet, or the last call returned or raised
AtRest == pc \in {"idle", "returned", "raised"}

\* Variant of fresh_firm_counts: the dict of the pass before is used again.
reused_firm_counts(old) == old

\* "firm_counts: dict[str, int] = {}" at the start of build_preview_rows
fresh_firm_counts(old) == EmptyDict

\* the locals of generate_emails before its loop; the locals of the call
\* before are gone
ResetGenerateLocals ==
    /\ preview_rows' = << >>
    /\ rows_by_email' = EmptyDict
    /\ j' = 0
    /\ count' = 0
    /\ sink' = << >>

\* the caller invokes build_preview_rows(..., only_recipients=only)
CallBuildPreviewRows(only) ==
    /\ AtRest
    /\ pc' = "preview"
    /\ call' = [fn |-> "build_preview_rows", only_recipients |-> only, dry_run |-> FALSE]
    /\ i' = 1
    /\ out' = << >>
    /\ firm_counts' = fresh_firm_counts(firm_counts)
    /\ ResetGenerateLocals
    /\ UNCHANGED << inputs, prev >>
    /\ UNCHANGED << resolver_vars, uuid_count >>

\* the caller invokes generate_emails(..., dry_run=dry), which starts with
\* build_preview_rows(..., only_recipients=True)
CallGenerateEmails(dry) ==
    /\ AtRest
    /\ pc' = "preview"
    /\ call' = [fn |-> "generate_emails", only_recipients |-> TRUE, dry_run |-> dry]
    /\ i' = 1
    /\ out' = << >>
    /\ firm_counts' = fresh_firm_counts(firm_counts)
    /\ ResetGenerateLocals
    /\ UNCHANGED << inputs, prev >>
    /\ UNCHANGED << resolver_vars, uuid_count >>

\* one iteration of "for row in rows" of build_preview_rows
PreviewRow ==
    /\ pc = "preview"
    /\ i <= Len(rows)
    /\ LET r == PreviewIteration(host, rows[i], headers_lower, templates,
                                 recipient_template_overrides,
                                 call.only_recipients, out, firm_counts)
       IN  /\ out' = r.out
           /\ firm_counts' = r.firm_counts
    /\ i' = i + 1
    /\ UNCHANGED << inputs, pc, call, generate_locals, prev >>
    /\ UNCHANGED << resolver_vars, uuid_count >>

\* "return out" to the caller of build_preview_rows
PreviewReturn ==
    /\ pc = "preview"
    /\ i > Len(rows)
    /\ call.fn = "build_preview_rows"
    /\ pc' = "returned"
    /\ prev' = [fn |-> call.fn, only_recipients |-> call.only_recipients, out |-> out]
    /\ UNCHANGED << inputs, call, preview_locals, generate_locals >>
    /\ UNCHANGED << resolver_vars, uuid_count >>

\* "return out" to generate_emails, which then builds its lookup tables
GeneratePrepare ==
    /\ pc = "preview"
    /\ i > Len(rows)
    /\ call.fn = "generate_emails"
    /\ pc' = "generate"
    /\ preview_rows' = out
    /\ rows_by_email' = _build_rows_by_email(rows, headers_lower, EmptyDict)
    /\ count' = 0
    /\ j' = 1
    /\ sink' = << >>
    /\ prev' = [fn |-> call.fn, only_recipients |-> call.only_recipients, out |-> out]
    /\ UNCHANGED << inputs, call, preview_locals >>
    /\ UNCHANGED << resolver_vars, uuid_count >>

\* the draft of the current iteration of "for p in preview_rows"
CurrentDraft == GenerateIteration(preview_rows[j], rows_by_email, templates)

\* an iteration that ends in one of the "continue" statements before resolution
GenerateSkip ==
    /\ pc = "generate"
    /\ j <= Len(preview_rows)
    /\ CurrentDraft.skip
    /\ j' = j + 1
    /\ UNCHANGED << inputs, pc, call, preview_locals, preview_rows, rows_by_email,
                    count, sink, prev >>
    /\ UNCHANGED << resolver_vars, uuid_count >>

\* an iteration with dry_run: count only
GenerateDryRun ==
    /\ pc = "generate"
    /\ j <= Len(preview_rows)
    /\ ~CurrentDraft.skip
    /\ call.dry_run
    /\ count' = count + 1
    /\ j' = j + 1
    /\ UNCHANGED << inputs, pc, call, preview_locals, preview_rows, rows_by_email,
                    sink, prev >>
    /\ UNCHANGED << resolver_vars, uuid_count >>

\* an iteration whose _create_outlook_draft call succeeds; the sink keeps the
\* arguments of the call, and with them the row and the template text they
\* were resolved from
GenerateDraft ==
    /\ pc = "generate"
    /\ j <= Len(preview_rows)
    /\ ~CurrentDraft.skip
    /\ ~call.dry_run
    /\ sink' = Append(sink, [row |-> CurrentDraft.row, text |-> CurrentDraft.text]
                             @@ DraftArguments(host, headers_lower, CurrentDraft,
                                               subject_template, resume_path))
    /\ count' = count + 1
    /\ j' = j + 1
    /\ UNCHANGED << inputs, pc, call, preview_locals, preview_rows, rows_by_email, prev >>
    /\ UNCHANGED << resolver_vars, uuid_count >>

\* Variant of GenerateSinkFails: the failure is caught for the one recipient
\* and the loop goes on with the next entry.
GenerateSinkFails_isolated ==
    /\ pc = "generate"
    /\ j <= Len(preview_rows)
    /\ ~CurrentDraft.skip
    /\ ~call.dry_run
    /\ j' = j + 1
    /\ UNCHANGED << inputs, pc, call, preview_locals, preview_rows, rows_by_email,
                    count, sink, prev >>
    /\ UNCHANGED << resolver_vars, uuid_count >>

\* an iteration whose _create_outlook_draft call raises (subprocess.run with
\* check=True): the exception leaves generate_emails and no count is returned
GenerateSinkFails ==
    /\ pc = "generate"
    /\ j <= Len(preview_rows)
    /\ ~CurrentDraft.skip
    /\ ~call.dry_run
    /\ pc' = "raised"
    /\ UNCHANGED << inputs, call, preview_locals, generate_locals, prev >>
    /\ UNCHANGED << resolver_vars, uuid_count >>

\* "return count"
GenerateReturn ==
    /\ pc = "generate"
    /\ j > Len(preview_rows)
    /\ pc' = "returned"
    /\ UNCHANGED << inputs, call, preview_locals, generate_locals, prev >>
    /\ UNCHANGED << resolver_vars, uuid_count >>

Next ==
    \/ \E only \in BOOLEAN : CallBuildPreviewRows(only)
    \/ \E dry \in BOOLEAN : CallGenerateEmails(dry)
    \/ PreviewRow
    \/ PreviewReturn
    \/ GeneratePrepare
    \/ GenerateSkip
    \/ GenerateDryRun
    \/ GenerateDraft
    \/ GenerateSinkFails
    \/ GenerateReturn

Spec == Init /\ [][Next]_vars

\* ------------------------------------------------------------------------
\* Inputs of the resolver on its own: header lists (lower case as the loaders
\* deliver them, and the mixed-case list a CLI caller may pass), rows whose
\* values may carry surrounding blanks, template texts and names
\* ------------------------------------------------------------------------
S_col == << "c","o","l" >>
H_firm_email == << "f","i","r","m"," ","e","m","a","i","l" >>
H_Firm_Email == << "F","i","r","m"," ","E","m","a","i","l" >>
H_Firm_Name == << "F","i","r","m"," ","N","a","m","e" >>
H_company_email == << "m","y"," ","c","o","m","p","a","n","y"," ","e","m","a","i","l" >>
V_JaneSmith == << "J","a","n","e"," ","S","m","i","t","h" >>
V_Dr == << "D","r" >>
V_f_mail == << "f","@","x",".","c" >>

\* the pieces a text is put together from
K_firm == << "{","f","i","r","m","}" >>
K_first_name == << "{","f","i","r","s","t"," ","n","a","m","e","}" >>
K_col == << "{","c","o","l","}" >>
K_open == << "{" >>

TextChunks ==
    { K_firm, << "{"," ","F","i","r","m"," ","N","a","m","e"," ","}" >>, K_first_name, K_col,
      << "{","x","}" >>, << "a"," " >>, K_open, << "}" >> }

RECURSIVE Concat(_)
Concat(ss) == IF ss = << >> THEN EmptyStr ELSE Head(ss) \o Concat(Tail(ss))

Texts == { Concat(cs) : cs \in SeqsUpTo(TextChunks, MaxChunks) }

Names == SeqsUpTo({ "a", "b", " ", "," }, MaxNameLen)

\* resolved bodies: letters, blanks, line breaks and "<br>" markers
BodyChunks == { S_br, << "b" >>, << "r" >>, << "x" >>, << ">" >>, << " " >>, << "\n" >> }

BodyTexts == { Concat(cs) : cs \in SeqsUpTo(BodyChunks, MaxBodyChunks) }

ResolverCases ==
    { [headers |-> << S_company, S_firm, S_col, S_name >>,
       row |-> (S_company :> << " ","A","c"," " >>) @@ (S_firm :> V_Be) @@
               (S_col :> K_firm) @@ (S_name :> << "D","o","e",","," ","J","a","n","e" >>)],
      [headers |-> << H_firm_email, S_firm_name, S_email >>,
       row |-> (H_firm_email :> V_f_mail) @@ (S_firm_name :> V_Ac) @@ (S_email :> E_a)],
      [headers |-> << H_Firm_Email, H_Firm_Name >>,
       row |-> (H_Firm_Email :> V_f_mail) @@ (H_Firm_Name :> V_Ac)],
      [headers |-> << << "m","y"," ","f","i","r","m" >>, S_business, S_col >>,
       row |-> (<< "m","y"," ","f","i","r","m" >> :> V_Be) @@ (S_business :> V_Ac) @@
               (S_col :> << " ","x"," " >>)],
      [headers |-> << S_col, S_prefix, S_full_name, S_name >>,
       row |-> (S_col :> V_Be) @@ (S_prefix :> V_Dr) @@ (S_full_name :> EmptyStr) @@
               (S_name :> V_JaneSmith)],
      [headers |-> << S_prefix, S_name >>,
       row |-> (S_prefix :> V_Dr) @@ (S_name :> << "J","a","n","e" >>)],
      [headers |-> << S_prefix, S_name >>,
       row |-> (S_prefix :> << " " >>) @@ (S_name :> V_JaneSmith)],
      [headers |-> << S_name, S_col >>,
       row |-> (S_name :> << "J","a","n","e"," ","Q"," ","S","m","i","t","h" >>) @@
               (S_col :> V_Ac) @@ (S_prefix :> V_Dr) @@
               (S_email :> << " ","a","@","x",".","c"," " >>)],
      [headers |-> << S_email, S_university >>,
       row |-> (S_university :> << "M","I","T" >>)],
      [headers |-> << H_company_email, << "c","o","m","p","a","n","y"," ","i","n","f","o" >> >>,
       row |-> (H_company_email :> V_f_mail) @@
               (<< "c","o","m","p","a","n","y"," ","i","n","f","o" >> :> V_Ac)],
      [headers |-> << S_col >>,
       row |-> (S_col :> V_Be)] }

\* ------------------------------------------------------------------------
\* The resolver and parse_name on their own: a caller constructs a
\* PlaceholderResolver over one row and applies resolve_text to a text and
\* then to what it returned, or calls the host's parse_name, or wraps a
\* resolved body with _wrap_in_html
\* ------------------------------------------------------------------------
EngineIdle ==
    /\ uuid_count = 0
    /\ templates = << >>
    /\ recipient_template_overrides = EmptyDict
    /\ subject_template = EmptyStr
    /\ resume_path = NoPath
    /\ pc = "idle"
    /\ call = NoCall
    /\ i = 0
    /\ out = << >>
    /\ firm_counts = EmptyDict
    /\ preview_rows = << >>
    /\ rows_by_email = EmptyDict
    /\ j = 0
    /\ count = 0
    /\ sink = << >>
    /\ prev = NoPrev

InitResolver ==
    /\ EngineIdle
    /\ host \in Hosts
    /\ rpc = "init"
    /\ resolver = NoResolver
    /\ results = << >>
    /\ parsed = NotParsed
    /\ \/ /\ \E c \in ResolverCases :
                 /\ headers_lower = c.headers
                 /\ rows = << c.row >>
          /\ text \in Texts
          /\ name_arg = EmptyStr
       \/ /\ name_arg \in Names
          /\ headers_lower = << S_name >>
          /\ rows = << (S_name :> name_arg) >>
          /\ text = K_first_name
       \/ /\ text \in BodyTexts
          /\ name_arg = EmptyStr
          /\ headers_lower = << S_col >>
          /\ rows = << (S_col :> V_Be) >>

\* PlaceholderResolver(headers_lower, row, parse_name_fn)
Construct ==
    /\ rpc = "init"
    /\ rpc' = "constructed"
    /\ resolver' = PlaceholderResolver(host, headers_lower, rows[1])
    /\ UNCHANGED << inputs, uuid_count, pc, call, preview_locals, generate_locals, prev,
                    text, results, name_arg, parsed >>

\* resolver.resolve_text(...) of the text, then of the last result
ResolveText ==
    /\ rpc = "constructed"
    /\ Len(results) < MaxResolves
    /\ results' = Append(results,
                     resolve_text(resolver,
                                  IF results = << >> THEN text ELSE results[Len(results)]))
    /\ UNCHANGED << inputs, uuid_count, pc, call, preview_locals, generate_locals, prev,
                    rpc, resolver, text, name_arg, parsed >>

\* the host's parse_name(name_arg), called directly
ParseName ==
    /\ rpc = "init"
    /\ rpc' = "parsed"
    /\ parsed' = parse_name_fn(host, name_arg)
    /\ UNCHANGED << inputs, uuid_count, pc, call, preview_locals, generate_locals, prev,
                    resolver, text, results, name_arg >>

\* _wrap_in_html(text), called directly
WrapHtml ==
    /\ rpc = "init"
    /\ rpc' = "wrapped"
    /\ results' = << _wrap_in_html(text) >>
    /\ UNCHANGED << inputs, uuid_count, pc, call, preview_locals, generate_locals, prev,
                    resolver, text, name_arg, parsed >>

\* the display name build_preview_rows computes from the resolver of a row
DisplayName ==
    /\ rpc = "constructed"
    /\ results = << >>
    /\ rpc' = "named"
    /\ results' = << name_display(resolver, rows[1]) >>
    /\ UNCHANGED << inputs, uuid_count, pc, call, preview_locals, generate_locals, prev,
                    resolver, text, name_arg, parsed >>

NextResolver ==
    \/ Construct
    \/ DisplayName
    \/ ResolveText
    \/ ParseName
    \/ WrapHtml

ResolverSpec == InitResolver /\ [][NextResolver]_vars

\* ------------------------------------------------------------------------
\* email_app.py: the template list and the override map of one profile of
\* the desktop app. "templates" is self.templates,
\* "recipient_template_overrides" is self.recipient_template_overrides and
\* uuid_count counts the ids uuid.uuid4() has handed out. The selected
\* template (current_index), the selected recipient and the text typed or
\* picked in a dialog are inputs of the handlers.
\* ------------------------------------------------------------------------
\* names typed for a template, as name.strip() leaves them
AppNames == { << "A" >>, << "B" >> }

\* what the assignment menu of the inspector and the combobox of the preview
\* table offer: "Auto (rotation)", template names, and in the inspector the
\* names with " (manual-only)" appended
Choices ==
    { << "A","u","t","o"," ","(","r","o","t","a","t","i","o","n",")" >> } \cup AppNames
        \cup { n \o << " ","(","m","a","n","u","a","l","-","o","n","l","y",")" >> : n \in AppNames }

InitApp ==
    /\ EngineIdle
    /\ ResolverOff
    /\ host = "app"
    /\ headers_lower = H_generate
    /\ rows = << Row(V_Ac, E_a, S_generate, G_true), Row(V_Ac, E_B, S_generate, G_Yes) >>

AppIdle ==
    UNCHANGED << rows, headers_lower, host, subject_template, resume_path, pc, call,
                 preview_locals, generate_locals, prev, resolver_vars >>

\* _new_template, with the name the dialog returned
_new_template(name) ==
    /\ uuid_count < MaxCreated
    /\ LET digits == << "1","2","3","4","5","6","7","8","9" >>
           untitled == << "U","n","t","i","t","l","e","d"," " >> \o << digits[Len(templates) + 1] >>
       IN  templates' = Append(templates,
               [id |-> "uuid" \o ToString(uuid_count + 1),
                name |-> IF name # EmptyStr THEN name ELSE untitled,
                text |-> EmptyStr, manual_only |-> FALSE])
    /\ uuid_count' = uuid_count + 1
    /\ UNCHANGED recipient_template_overrides
    /\ AppIdle

\* _import_txts, with the stems of the files picked
_import_txts(files) ==
    /\ files # << >>
    /\ uuid_count + Len(files) <= MaxCreated
    /\ templates' = templates \o
           [k \in 1..Len(files) |->
               [id |-> "uuid" \o ToString(uuid_count + k), name |-> files[k],
                text |-> << "x" >>, manual_only |-> FALSE]]
    /\ uuid_count' = uuid_count + Len(files)
    /\ UNCHANGED recipient_template_overrides
    /\ AppIdle

\* _rename_template
_rename_template(idx, name) ==
    /\ idx \in 1..Len(templates)
    /\ templates' = [templates EXCEPT ![idx].name = IF name # EmptyStr THEN name ELSE @]
    /\ UNCHANGED << recipient_template_overrides, uuid_count >>
    /\ AppIdle

\* _move_up
_move_up(idx) ==
    /\ idx \in 2..Len(templates)
    /\ templates' = [templates EXCEPT ![idx - 1] = templates[idx], ![idx] = templates[idx - 1]]
    /\ UNCHANGED << recipient_template_overrides, uuid_count >>
    /\ AppIdle

\* _move_down
_move_down(idx) ==
    /\ idx \in 1..(Len(templates) - 1)
    /\ templates' = [templates EXCEPT ![idx + 1] = templates[idx], ![idx] = templates[idx + 1]]
    /\ UNCHANGED << recipient_template_overrides, uuid_count >>
    /\ AppIdle

\* _on_manual_only_toggled
_on_manual_only_toggled(idx, value) ==
    /\ idx \in 1..Len(templates)
    /\ templates' = [templates EXCEPT ![idx].manual_only = value]
    /\ UNCHANGED << recipient_template_overrides, uuid_count >>
    /\ AppIdle

\* _prune_recipient_overrides: the entries whose id is in the template list
_prune_recipient_overrides(templates_, overrides_) ==
    LET valid_ids == { templates_[k].id : k \in 1..Len(templates_) }
        live == { email \in DOMAIN overrides_ : overrides_[email] \in valid_ids }
    IN  [email \in live |-> overrides_[email]]

\* Variant of _remove_template without the call of _prune_recipient_overrides.
remove_template_without_prune(idx) ==
    /\ idx \in 1..Len(templates)
    /\ templates' = SubSeq(templates, 1, idx - 1) \o SubSeq(templates, idx + 1, Len(templates))
    /\ UNCHANGED << recipient_template_overrides, uuid_count >>
    /\ AppIdle

\* _remove_template
_remove_template(idx) ==
    /\ idx \in 1..Len(templates)
    /\ templates' = SubSeq(templates, 1, idx - 1) \o SubSeq(templates, idx + 1, Len(templates))
    /\ recipient_template_overrides' =
           _prune_recipient_overrides(templates', recipient_template_overrides)
    /\ UNCHANGED uuid_count
    /\ AppIdle

\* the recipients that can be selected in the preview table: the normalized
\* emails of the rows that pass _is_email_valid
PreviewEmails ==
    { e \in { Strip(Lower(get_email(headers_lower, rows[k]))) : k \in 1..Len(rows) } :
          EmailApp_is_email_valid(e) }

\* _on_preview_assignment_changed, for the selected recipient and the choice
\* of the assignment menu
_on_preview_assignment_changed(email, choice) ==
    /\ email \in PreviewEmails
    /\ LET clean == str_replace(choice, << " ","(","m","a","n","u","a","l","-","o","n","l","y",")" >>, EmptyStr)
           named == { k \in 1..Len(templates) : templates[k].name = clean }
           t == IF named = {} THEN NoTemplate
                ELSE templates[CHOOSE k \in named : \A l \in named : k <= l]
       IN  recipient_template_overrides' =
               IF choice = << "A","u","t","o"," ","(","r","o","t","a","t","i","o","n",")" >>
               THEN [e \in DOMAIN recipient_template_overrides \ {email} |->
                        recipient_template_overrides[e]]
               ELSE IF t # NoTemplate
               THEN (email :> t.id) @@ recipient_template_overrides
               ELSE recipient_template_overrides
    /\ UNCHANGED << templates, uuid_count >>
    /\ AppIdle

\* _commit of _on_preview_tree_double_click, for the recipient of the cell
\* and the choice of the combobox
_commit(email, choice) ==
    /\ email \in PreviewEmails
    /\ LET named == { k \in 1..Len(templates) : templates[k].name = choice }
           t == IF named = {} THEN NoTemplate
                ELSE templates[CHOOSE k \in named : \A l \in named : k <= l]
       IN  recipient_template_overrides' =
               IF choice = << "A","u","t","o"," ","(","r","o","t","a","t","i","o","n",")" >>
               THEN [e \in DOMAIN recipient_template_overrides \ {email} |->
                        recipient_template_overrides[e]]
               ELSE IF t # NoTemplate
               THEN (email :> t.id) @@ recipient_template_overrides
               ELSE recipient_template_overrides
    /\ UNCHANGED << templates, uuid_count >>
    /\ AppIdle

\* _clear_all: the template list is emptied, the override map is not touched
_clear_all ==
    /\ templates' = << >>
    /\ UNCHANGED << recipient_template_overrides, uuid_count >>
    /\ AppIdle

NextApp ==
    \/ \E name \in AppNames \cup {EmptyStr} : _new_template(name)
    \/ \E files \in SeqsUpTo(AppNames, 2) : _import_txts(files)
    \/ \E idx \in 1..Len(templates), name \in AppNames \cup {EmptyStr} : _rename_template(idx, name)
    \/ \E idx \in 1..Len(templates) : _move_up(idx)
    \/ \E idx \in 1..Len(templates) : _move_down(idx)
    \/ \E idx \in 1..Len(templates), value \in BOOLEAN : _on_manual_only_toggled(idx, value)
    \/ \E idx \in 1..Len(templates) : _remove_template(idx)
    \/ \E email \in PreviewEmails, choice \in Choices : _on_preview_assignment_changed(email, choice)
    \/ \E email \in PreviewEmails, choice \in Choices : _commit(email, choice)
    \/ _clear_all

AppSpec == InitApp /\ [][NextApp]_vars

\* ------------------------------------------------------------------------
\* Vocabulary of the properties
\* ------------------------------------------------------------------------
TemplateIds == { templates[k].id : k \in 1..Len(templates) }
TemplateOfId(tid) == templates[CHOOSE k \in 1..Len(templates) : templates[k].id = tid]

\* the templates with manual_only false, in their given order
Rotatable == SelectSeq(templates, LAMBDA t : t.manual_only = FALSE)
RotatableAt(n) == Rotatable[((n - 1) % Len(Rotatable)) + 1]

\* the override entries that name a template id missing from the template list
StaleKeys ==
    { e \in DOMAIN recipient_template_overrides :
          recipient_template_overrides[e] \notin TemplateIds }

Without(d, e) == [k \in DOMAIN d \ {e} |-> d[k]]

\* What the properties say about row k: whether it is eligible, its firm, its
\* normalized email, and whether the override map names an existing template
\* (override) or a missing one (stale) for that email.
RowFacts(k) ==
    LET email == Strip(Lower(get_email(headers_lower, rows[k])))
        in_map == email \in DOMAIN recipient_template_overrides
    IN  [eligible |-> Eligible(host, headers_lower, rows[k]),
         firm |-> get_firm(headers_lower, rows[k]),
         email |-> email,
         override |-> in_map /\ recipient_template_overrides[email] \in TemplateIds,
         stale |-> in_map /\ recipient_template_overrides[email] \notin TemplateIds]

RECURSIVE FactsUpTo(_)
FactsUpTo(n) == IF n = 0 THEN << >> ELSE Append(FactsUpTo(n - 1), RowFacts(n))

\* the facts of all rows, in row order
Facts == FactsUpTo(Len(rows))

EligibleRows(f) == { k \in 1..Len(f) : f[k].eligible }

\* how many eligible rows precede row k, k included
Rank(f, k) == Cardinality({ l \in 1..k : f[l].eligible })

\* the row behind the m-th entry of "out" (only eligible rows have entries
\* when only_recipients is true)
RowOfEntry(f, m) ==
    IF call.only_recipients
    THEN CHOOSE k \in 1..Len(f) : f[k].eligible /\ Rank(f, k) = m
    ELSE m

\* N of "the N-th eligible recipient of its firm", for row r
NthEligibleOfFirm(f, r) ==
    Cardinality({ l \in 1..r : f[l].eligible /\ f[l].firm = f[r].firm })

\* the same count without the rows served by an override
NthRotatedOfFirm(f, r) ==
    Cardinality({ l \in 1..r : f[l].eligible /\ f[l].firm = f[r].firm /\ ~f[l].override })

ByRotation(e) == ~e.is_manual /\ e.template_id # None

\* a build_preview_rows pass has processed every row and is about to return
PassComplete == pc = "preview" /\ i > Len(rows)

\* generate_emails returned its count (the sink never failed)
Generated == pc = "returned" /\ call.fn = "generate_emails"

\* a draft of the sink is addressed to the normalized email e
DraftTo(e) == \E d \in 1..Len(sink) : Strip(Lower(sink[d].to)) = e

\* ------------------------------------------------------------------------
\* C1: when every row is eligible, all rows share one firm and the override
\* map is empty, the k-th entry of a pass has template
\* rotatable[(k-1) mod n]; [A,B,C] and four rows give A,B,C,A.
\* ------------------------------------------------------------------------
C1_Case ==
    /\ recipient_template_overrides = EmptyDict
    /\ Len(Rotatable) >= 1
    /\ LET f == Facts
       IN  \A k \in 1..Len(f) : f[k].eligible /\ f[k].firm = f[1].firm

C1_RotationInRowOrder ==
    (PassComplete /\ C1_Case) =>
        \A k \in 1..Len(out) :
            /\ out[k].template_id = RotatableAt(k).id
            /\ out[k].template_name = RotatableAt(k).name

C1_Witness ==
    /\ PassComplete
    /\ Len(Rotatable) = 3
    /\ Len(out) = 4
    /\ out[4].template_id = out[1].template_id
    /\ C1_Case

\* ------------------------------------------------------------------------
\* C2 as claimed: an entry assigned by rotation, being the N-th eligible row
\* of its firm (N counts every eligible row of the firm), has template
\* rotatable[(N-1) mod len(rotatable)].
\* ------------------------------------------------------------------------
C2_NthEligibleOfFirm ==
    PassComplete =>
    LET f == Facts
    IN  \A m \in 1..Len(out) :
            ByRotation(out[m]) =>
                out[m].template_id = RotatableAt(NthEligibleOfFirm(f, RowOfEntry(f, m))).id

\* C2 as amended: an entry assigned by rotation has template
\* rotatable[(N-1) mod len(rotatable)], where N counts the eligible rows of
\* its firm up to and including it that are not served by an override.
C2_NthRotatedOfFirm ==
    PassComplete =>
    LET f == Facts
    IN  \A m \in 1..Len(out) :
            ByRotation(out[m]) =>
                out[m].template_id = RotatableAt(NthRotatedOfFirm(f, RowOfEntry(f, m))).id

C2_Witness ==
    /\ PassComplete
    /\ \E k, m \in 1..Len(out) :
           /\ k < m
           /\ out[k].is_manual
           /\ out[k].firm = out[m].firm
           /\ ByRotation(out[m])

\* ------------------------------------------------------------------------
\* C3: an eligible row whose normalized email is a key of the override map
\* that names an existing template gets (that template, True), whatever the
\* firm counters are and also when the template is manual_only.
\* ------------------------------------------------------------------------
C3_OverrideWins ==
    /\ PassComplete =>
           LET f == Facts
           IN  \A m \in 1..Len(out) :
                   LET r == RowOfEntry(f, m)
                   IN  (f[r].eligible /\ f[r].override) =>
                           /\ out[m].is_manual
                           /\ out[m].template_id = recipient_template_overrides[f[r].email]
                           /\ out[m].template_name = TemplateOfId(out[m].template_id).name
    /\ (pc = "preview" /\ i <= Len(rows)) =>
           LET fi == RowFacts(i)
               c == choose_template_for_row(rows[i], headers_lower, templates,
                                            recipient_template_overrides, firm_counts)
           IN  (fi.eligible /\ fi.override) =>
                   /\ c.t = TemplateOfId(recipient_template_overrides[fi.email])
                   /\ c.is_manual

C3_Witness ==
    /\ PassComplete
    /\ \E m \in 2..Len(out) :
           /\ out[m].is_manual
           /\ TemplateOfId(out[m].template_id).manual_only
           /\ ByRotation(out[m - 1])
           /\ out[m - 1].firm = out[m].firm
           /\ Get(firm_counts, out[m].firm, 0) >= 1

\* ------------------------------------------------------------------------
\* C4 as claimed: a recipient whose override names an id that is not in the
\* template list has template_id None and template_name DASH, and gets no
\* draft.
\* ------------------------------------------------------------------------
C4_StaleGetsNoTemplate ==
    /\ PassComplete =>
           LET f == Facts
           IN  \A m \in 1..Len(out) :
                   LET r == RowOfEntry(f, m)
                   IN  (f[r].eligible /\ f[r].stale) =>
                           /\ out[m].template_id = None
                           /\ out[m].template_name = DASH
    /\ (Generated /\ ~call.dry_run) =>
           LET f == Facts
           IN  \A r \in 1..Len(f) : (f[r].eligible /\ f[r].stale) => ~DraftTo(f[r].email)

\* C4 as amended: such a recipient is handled as a recipient without override.
\* With a rotatable template it is assigned by rotation (is_manual false) and
\* gets a draft; only without any rotatable template it has template_id None
\* and template_name DASH and gets no draft.
C4_StaleFallsBackToRotation ==
    /\ PassComplete =>
           LET f == Facts
           IN  \A m \in 1..Len(out) :
                   LET r == RowOfEntry(f, m)
                   IN  (f[r].eligible /\ f[r].stale) =>
                           /\ ~out[m].is_manual
                           /\ IF Rotatable = << >>
                              THEN /\ out[m].template_id = None
                                   /\ out[m].template_name = DASH
                              ELSE /\ out[m].template_id = RotatableAt(NthRotatedOfFirm(f, r)).id
                                   /\ out[m].template_name = RotatableAt(NthRotatedOfFirm(f, r)).name
    /\ (Generated /\ ~call.dry_run) =>
           LET f == Facts
           IN  \A r \in 1..Len(f) :
                   (f[r].eligible /\ f[r].stale) =>
                       (DraftTo(f[r].email) <=> Rotatable # << >>)

C4_Witness ==
    /\ Generated
    /\ ~call.dry_run
    /\ sink # << >>
    /\ LET f == Facts
       IN  \E r \in 1..Len(f) : f[r].eligible /\ f[r].stale /\ DraftTo(f[r].email)

\* ------------------------------------------------------------------------
\* C5: an override entry whose template id is missing from the template list
\* changes nothing: the entry list equals the one the same call returns
\* with that entry removed from the map.
\* ------------------------------------------------------------------------
C5_StaleEntryIsNoOverride ==
    PassComplete =>
        \A e \in StaleKeys :
            out = build_preview_rows(host, rows, headers_lower, templates,
                                     Without(recipient_template_overrides, e),
                                     call.only_recipients)

C5_Witness ==
    /\ PassComplete
    /\ \E m \in 1..Len(out) :
           /\ out[m].email_norm \in StaleKeys
           /\ out[m].is_eligible
           /\ out[m].template_id # None

\* ------------------------------------------------------------------------
\* C6: when the sink never fails, generate_emails returns the number of
\* entries of build_preview_rows(only_recipients=True) with a template_id,
\* and creates for each of them, in order, one draft to its display email
\* from the text of the template its template_id names.
\* ------------------------------------------------------------------------
C6_PreviewGenerationAgreement ==
    Generated =>
        LET pv == build_preview_rows(host, rows, headers_lower, templates,
                                     recipient_template_overrides, TRUE)
            assigned == SelectSeq(pv, LAMBDA p : p.template_id # None)
        IN  /\ count = Len(assigned)
            /\ ~call.dry_run =>
                   /\ Len(sink) = Len(assigned)
                   /\ \A m \in 1..Len(assigned) :
                          /\ sink[m].to = assigned[m].email
                          /\ sink[m].text = TemplateOfId(assigned[m].template_id).text

C6_Witness ==
    /\ Generated
    /\ ~call.dry_run
    /\ count >= 2
    /\ Len(preview_rows) > count
    /\ \E m \in 1..Len(sink) : sink[m].to # Lower(sink[m].to)

\* ------------------------------------------------------------------------
\* C7: every pass starts from an empty counter map, so a pass returns the
\* entry list the pass before it returned for the same only_recipients,
\* whether that pass was a preview call or the one inside generate_emails.
\* ------------------------------------------------------------------------
C7_SameResultEveryCall ==
    (PassComplete /\ prev.fn # "none" /\ prev.only_recipients = call.only_recipients) =>
        out = prev.out

C7_Witness ==
    /\ PassComplete
    /\ prev.fn = "generate_emails"
    /\ call.fn = "build_preview_rows"
    /\ call.only_recipients
    /\ Len(Rotatable) >= 2
    /\ \E f \in DOMAIN firm_counts : firm_counts[f] >= 2

\* ------------------------------------------------------------------------
\* C8: no step changes the rows, the header list, the template list or the
\* override map; a step of the preview loop changes the counter map at most
\* at the firm key of its own row, and the generation loop leaves it alone.
\* ------------------------------------------------------------------------
C8_Step ==
    /\ rows' = rows
    /\ headers_lower' = headers_lower
    /\ templates' = templates
    /\ recipient_template_overrides' = recipient_template_overrides
    /\ (pc = "preview" /\ pc' = "preview") =>
           \A k \in DOMAIN firm_counts \cup DOMAIN firm_counts' :
               k # get_firm(headers_lower, rows[i]) =>
                   /\ k \in DOMAIN firm_counts
                   /\ k \in DOMAIN firm_counts'
                   /\ firm_counts'[k] = firm_counts[k]
    /\ pc = "generate" => firm_counts' = firm_counts

C8_InputsReadOnly == [][C8_Step]_vars

C8_Witness ==
    /\ pc = "preview"
    /\ Cardinality(DOMAIN firm_counts) = 2
    /\ \E f \in DOMAIN firm_counts : firm_counts[f] = 2

\* ------------------------------------------------------------------------
\* C9: an ineligible row never advances a counter; in a pass with
\* only_recipients false it is emitted with template_id None and is_manual
\* false, and every eligible row gets the template_id and is_manual it gets in
\* the pass with only_recipients true.
\* ------------------------------------------------------------------------
C9_SameAssignment(f, outTrue, outFalse) ==
    /\ Len(outFalse) = Len(f)
    /\ Len(outTrue) = Cardinality(EligibleRows(f))
    /\ \A k \in EligibleRows(f) :
           /\ outFalse[k].template_id = outTrue[Rank(f, k)].template_id
           /\ outFalse[k].is_manual = outTrue[Rank(f, k)].is_manual

C9_IneligibleRowsDoNotCount ==
    /\ (PassComplete /\ prev.fn # "none" /\ prev.only_recipients # call.only_recipients) =>
           LET f == Facts
           IN  IF call.only_recipients
               THEN C9_SameAssignment(f, out, prev.out)
               ELSE C9_SameAssignment(f, prev.out, out)
    /\ (PassComplete /\ ~call.only_recipients) =>
           LET f == Facts
           IN  \A m \in 1..Len(out) :
                   ~f[m].eligible =>
                       /\ out[m].template_id = None
                       /\ ~out[m].is_manual
    /\ (pc = "preview" /\ i <= Len(rows) /\ ~Eligible(host, headers_lower, rows[i])) =>
               PreviewIteration(host, rows[i], headers_lower, templates,
                                recipient_template_overrides, call.only_recipients,
                                out, firm_counts).firm_counts = firm_counts

C9_Witness ==
    /\ PassComplete
    /\ ~call.only_recipients
    /\ prev.fn # "none"
    /\ prev.only_recipients
    /\ LET f == Facts
       IN  \E k, l, m \in 1..Len(f) :
               /\ k < l /\ l < m
               /\ f[k].eligible /\ ~f[l].eligible /\ f[m].eligible
               /\ f[k].firm = f[l].firm /\ f[l].firm = f[m].firm
               /\ ByRotation(out[k]) /\ ByRotation(out[m])
               /\ out[k].template_id # out[m].template_id

\* ------------------------------------------------------------------------
\* C11: when no template is rotatable (all manual_only, or an empty list),
\* every eligible row without an effective override has an entry with
\* template_id None, template_name "-" and is_manual false, no firm counter
\* exists at any time, and generate_emails counts exactly the eligible rows
\* with an effective override and drafts nothing for the others.
\* ------------------------------------------------------------------------
C11_NoRotatableTemplates ==
    Rotatable = << >> =>
        /\ firm_counts = EmptyDict
        /\ PassComplete =>
               LET f == Facts
               IN  \A m \in 1..Len(out) :
                       LET r == RowOfEntry(f, m)
                       IN  (f[r].eligible /\ ~f[r].override) =>
                               /\ out[m].template_id = None
                               /\ out[m].template_name = DASH
                               /\ ~out[m].is_manual
        /\ Generated =>
               LET f == Facts
               IN  /\ count = Cardinality({ r \in 1..Len(f) : f[r].eligible /\ f[r].override })
                   /\ ~call.dry_run =>
                          /\ Len(sink) = count
                          /\ \A r \in 1..Len(f) :
                                 (f[r].eligible /\ ~f[r].override) => ~DraftTo(f[r].email)

C11_Witness ==
    /\ Generated
    /\ ~call.dry_run
    /\ Rotatable = << >>
    /\ templates # << >>
    /\ count >= 1
    /\ Len(preview_rows) > count

\* ------------------------------------------------------------------------
\* C10 as claimed: with the predicates of either host, a row is eligible
\* exactly when its "generate" field, trimmed and lowercased, is one of 1,
\* true, yes, y and its email has the shape local@domain.tld; a row without
\* a "generate" field is never eligible and has no entry in the
\* recipients-only preview.
\* ------------------------------------------------------------------------
C10_ClaimedEligible(row) ==
    /\ S_generate \in DOMAIN row
    /\ Lower(Strip(row[S_generate])) \in TruthyStrings
    /\ EmailShape(get_email(headers_lower, row))

C10_EligibleIffGenerateAndEmail ==
    PassComplete =>
        IF call.only_recipients
        THEN Len(out) = Cardinality({ k \in 1..Len(rows) : C10_ClaimedEligible(rows[k]) })
        ELSE \A m \in 1..Len(out) : out[m].is_eligible = C10_ClaimedEligible(rows[m])

\* ------------------------------------------------------------------------
\* Vocabulary of the resolver properties
\* ------------------------------------------------------------------------
DerivedKeys == { S_first_name, S_last_name, S_full_name, S_firm, S_firm_name, S_school }

\* the placeholder "{tok}"
Braced(tok) == S_lbrace \o tok \o << "}" >>

\* the text is one placeholder and nothing else
IsOneToken(t) == Len(t) > 2 /\ t[1] = "{" /\ MatchEnd(t, 1) = Len(t)

\* the trimmed, lowercased token of a one-placeholder text
TokenKey(t) == Lower(Strip(SubSeq(t, 2, Len(t) - 1)))

InHeaders(key) == \E k \in 1..Len(headers_lower) : headers_lower[k] = key

\* the value a row holds under a key, trimmed as the resolver reads it
Trimmed(row, key) == Strip(Get(row, key, EmptyStr))

\* ------------------------------------------------------------------------
\* C12: a placeholder whose trimmed, lowercased token is one of the six
\* derived keys resolves to the derived value, whatever a column of that name
\* holds; otherwise a token equal to a header resolves to the (trimmed) value
\* of that column; otherwise to the empty string.  "{firm}" and
\* "{firm name}" both resolve to get_firm().
\* ------------------------------------------------------------------------
C12_TokenPriority ==
    rpc = "constructed" =>
        /\ \A key \in DerivedKeys :
               resolve_text(resolver, Braced(key)) = resolver.derived[key]
        /\ resolve_text(resolver, Braced(S_firm)) = get_firm(headers_lower, rows[1])
        /\ resolve_text(resolver, Braced(S_firm_name)) = get_firm(headers_lower, rows[1])
        /\ (results # << >> /\ IsOneToken(text)) =>
               LET key == TokenKey(text)
               IN  results[1] = IF key \in DerivedKeys THEN resolver.derived[key]
                                ELSE IF InHeaders(key) THEN Trimmed(rows[1], key)
                                ELSE EmptyStr

C12_Witness ==
    /\ rpc = "constructed"
    /\ results # << >>
    /\ text = K_firm
    /\ InHeaders(S_firm)
    /\ results[1] # Trimmed(rows[1], S_firm)
    /\ results[1] # EmptyStr

\* ------------------------------------------------------------------------
\* C13: resolve_text is one pass from left to right.  A text without "{" is
\* returned as it is; otherwise the result is the text before the first
\* placeholder, unchanged, then the value of that placeholder exactly as
\* _resolve_token returns it (never scanned again), then the resolution of
\* the rest of the text; a text without any placeholder is returned as it is.
\* ------------------------------------------------------------------------
C13_SinglePass ==
    (rpc = "constructed" /\ results # << >>) =>
        LET starts == { p \in 1..Len(text) : MatchEnd(text, p) > 0 }
        IN  IF ~Contains(text, S_lbrace) \/ starts = {}
            THEN results[1] = text
            ELSE LET p == CHOOSE k \in starts : \A m \in starts : k <= m
                     e == MatchEnd(text, p)
                 IN  results[1] =
                         SubSeq(text, 1, p - 1) \o
                         _resolve_token(resolver, SubSeq(text, p + 1, e - 1)) \o
                         resolve_text(resolver, SubSeq(text, e + 1, Len(text)))

C13_Witness ==
    /\ rpc = "constructed"
    /\ Len(results) = 2
    /\ text = K_open \o K_col
    /\ results[1] = K_open \o K_firm
    /\ results[2] # results[1]

\* ------------------------------------------------------------------------
\* C14: when the text resolve_text returned contains no "{", resolving that
\* text again returns it unchanged.
\* ------------------------------------------------------------------------
C14_IdempotentWithoutBrace ==
    (Len(results) >= 2 /\ ~Contains(results[1], S_lbrace)) => results[2] = results[1]

C14_Witness ==
    /\ Len(results) >= 2
    /\ ~Contains(results[1], S_lbrace)
    /\ Contains(results[1], << "}" >>)
    /\ results[1] # text
    /\ results[1] # EmptyStr
    /\ results[2] = results[1]

\* ------------------------------------------------------------------------
\* C15: the firm header is the first header equal to one of firm, company,
\* firm name, company name, business; without one, the first header whose
\* lower-case text contains "company" or "firm" and not "email"; else none.
\* It never contains "email", and ["Firm Email", "Firm Name"] select
\* "Firm Name".
\* ------------------------------------------------------------------------
C15_FirmHeaderSelection ==
    rpc = "constructed" =>
        LET hs == headers_lower
            exact == { k \in 1..Len(hs) :
                          hs[k] \in {S_firm, S_company, S_firm_name, S_company_name, S_business} }
            cont == { k \in 1..Len(hs) :
                         /\ Contains(Lower(hs[k]), S_company) \/ Contains(Lower(hs[k]), S_firm)
                         /\ ~Contains(Lower(hs[k]), S_email) }
            chosen == resolver.company_header
        IN  /\ chosen = IF exact # {} THEN hs[CHOOSE k \in exact : \A m \in exact : k <= m]
                        ELSE IF cont # {} THEN hs[CHOOSE k \in cont : \A m \in cont : k <= m]
                        ELSE NoHeader
            /\ ~Contains(Lower(chosen), S_email)
            /\ hs = << H_Firm_Email, H_Firm_Name >> => chosen = H_Firm_Name
            /\ get_firm(hs, rows[1]) =
                   IF chosen = NoHeader THEN EmptyStr ELSE Trimmed(rows[1], chosen)

C15_Witness ==
    /\ rpc = "constructed"
    /\ resolver.company_header = S_business
    /\ \E k \in 1..Len(headers_lower) :
           /\ Contains(headers_lower[k], S_firm)
           /\ \E m \in (k + 1)..Len(headers_lower) : headers_lower[m] = S_business
    /\ get_firm(headers_lower, rows[1]) = V_Ac

\* ------------------------------------------------------------------------
\* C16: get_email returns the trimmed row value of the first header whose
\* lower-case text contains "email"; only without such a header the trimmed
\* value of the row's "email" key; the empty string when the row has no
\* value there.
\* ------------------------------------------------------------------------
C16_EmailHeaderSelection ==
    rpc = "constructed" =>
        LET hs == headers_lower
            em == { k \in 1..Len(hs) : Contains(Lower(hs[k]), S_email) }
            first == IF em = {} THEN NoHeader
                     ELSE hs[CHOOSE k \in em : \A m \in em : k <= m]
        IN  /\ resolver.email_header = first
            /\ get_email(hs, rows[1]) =
                   IF em # {} THEN Trimmed(rows[1], first) ELSE Trimmed(rows[1], S_email)
            /\ (em # {} /\ first \notin DOMAIN rows[1]) => get_email(hs, rows[1]) = EmptyStr

C16_Witness ==
    /\ rpc = "constructed"
    /\ headers_lower = << H_firm_email, S_firm_name, S_email >>
    /\ get_email(headers_lower, rows[1]) = V_f_mail
    /\ rows[1][S_email] # V_f_mail

\* ------------------------------------------------------------------------
\* C17: with a "prefix" header and a non-empty (trimmed) prefix value,
\* the "first name" placeholder is "<prefix>. <last>" when a last name
\* exists and "<prefix>." otherwise; with an empty prefix value or without
\* the header it is the parsed first name.  "last name" and "full name" are
\* what they are without the prefix header.
\* ------------------------------------------------------------------------
C17_PrefixRule ==
    rpc = "constructed" =>
        LET hs == headers_lower
            row == rows[1]
            pv == IF InHeaders(S_prefix) THEN Trimmed(row, S_prefix) ELSE EmptyStr
            plain == _build_derived_defaults(host, SelectSeq(hs, LAMBDA h : h # S_prefix), row)
            first == resolver.derived[S_first_name]
        IN  /\ plain[S_first_name] = parse_name_fn(host, plain[S_full_name]).first
            /\ first = IF pv = EmptyStr THEN plain[S_first_name]
                       ELSE IF plain[S_last_name] # EmptyStr
                       THEN pv \o << ".", " " >> \o plain[S_last_name]
                       ELSE pv \o << "." >>
            /\ resolver.derived[S_last_name] = plain[S_last_name]
            /\ resolver.derived[S_full_name] = plain[S_full_name]
            /\ resolve_text(resolver, K_first_name) = first
            /\ (pv = V_Dr /\ plain[S_last_name] = << "S","m","i","t","h" >>) =>
                   first = << "D","r","."," ","S","m","i","t","h" >>

C17_Witness ==
    /\ rpc = "constructed"
    /\ text = K_first_name
    /\ results # << >>
    /\ results[1] = << "D","r","."," ","S","m","i","t","h" >>
    /\ resolver.derived[S_last_name] = << "S","m","i","t","h" >>
    /\ resolver.derived[S_full_name] = V_JaneSmith

\* ------------------------------------------------------------------------
\* C18 as claimed: parse_name returns a pair for every input, the same pair
\* in the CLI and in the desktop UI: ("", "") for the empty string; for a
\* name with a comma the trimmed text after the first comma and the trimmed
\* text before it; otherwise, of the whitespace-separated tokens, (token, "")
\* for one token and (first token, last token) for two or more.
\* ------------------------------------------------------------------------
C18_ClaimedPair(name) ==
    IF name = EmptyStr THEN Pair(EmptyStr, EmptyStr)
    ELSE IF \E k \in 1..Len(name) : name[k] = ","
    THEN LET c == FirstComma(name)
         IN  Pair(Strip(SubSeq(name, c + 1, Len(name))), Strip(SubSeq(name, 1, c - 1)))
    ELSE LET tokens == split(name)
         IN  IF Len(tokens) = 1 THEN Pair(tokens[1], EmptyStr)
             ELSE IF Len(tokens) >= 2 THEN Pair(tokens[1], tokens[Len(tokens)])
             ELSE parsed

ClaimedSinkCalls ==
    LET pv == build_preview_rows(host, rows, headers_lower, templates,
                                 recipient_template_overrides, TRUE)
        assigned == SelectSeq(pv, LAMBDA p : p.template_id # None)
        by_email == _build_rows_by_email(rows, headers_lower, EmptyDict)
    IN  [m \in 1..Len(assigned) |->
            LET self == PlaceholderResolver(host, headers_lower,
                                            by_email[assigned[m].email_norm])
            IN  [to |-> assigned[m].email,
                 subject |-> resolve_text(self, subject_template),
                 body |-> _wrap_in_html(resolve_text(self,
                              TemplateOfId(assigned[m].template_id).text)),
                 resume_path |-> resume_path]]

SinkCalls ==
    [m \in 1..Len(sink) |-> [to |-> sink[m].to, subject |-> sink[m].subject,
                             body |-> sink[m].body, resume_path |-> sink[m].resume_path]]

\* ------------------------------------------------------------------------
\* C19: in a non-dry generate_emails call an entry that is not skipped either
\* gets its draft (one more sink call, one more counted) or the sink fails and
\* the call ends with the error. At the failure on the k-th draft the sink
\* has received exactly the k-1 earlier calls, once each and in order;
\* the failed call takes no further step, so it returns nothing and makes no
\* later sink call: what follows is a new call of the caller, which starts
\* at the first row with no sink call made.
\* ------------------------------------------------------------------------
C19_Step ==
    /\ (pc = "generate" /\ ~call.dry_run /\ j <= Len(preview_rows) /\ ~CurrentDraft.skip) =>
           \/ /\ pc' = "generate"
              /\ Len(sink') = Len(sink) + 1
              /\ SubSeq(sink', 1, Len(sink)) = sink
              /\ count' = count + 1
              /\ j' = j + 1
           \/ /\ pc' = "raised"
              /\ UNCHANGED << sink, count, j, firm_counts, out >>
              /\ count = Len(sink)
              /\ SinkCalls = SubSeq(ClaimedSinkCalls, 1, count)
    /\ pc' = "raised" => (pc = "raised" \/ (pc = "generate" /\ ~call.dry_run))
    /\ pc = "raised" =>
           /\ pc' = "preview"
           /\ i' = 1
           /\ sink' = << >>

C19_SinkFailurePropagates == [][C19_Step]_vars

C19_Witness ==
    /\ pc = "raised"
    /\ count >= 1
    /\ Len(sink) = count
    /\ Len(ClaimedSinkCalls) >= count + 2

\* ------------------------------------------------------------------------
\* C20: a dry run makes no sink call and returns the number of sink calls a
\* non-dry run on the same input makes; a non-dry run has made one sink call
\* per counted draft at every point of its loop, and by its return the calls
\* are, in preview order, the display email, the resolved subject, the
\* HTML-wrapped resolved body and resume_path of each entry with a template.
\* ------------------------------------------------------------------------
C20_DryRunAndSinkCalls ==
    (call.fn = "generate_emails" /\ pc \in {"generate", "returned"}) =>
        /\ IF call.dry_run THEN sink = << >> ELSE Len(sink) = count
        /\ pc = "returned" =>
               LET claimed == ClaimedSinkCalls
               IN  /\ count = Len(claimed)
                   /\ ~call.dry_run => SinkCalls = claimed

C20_Witness ==
    /\ Generated
    /\ ~call.dry_run
    /\ count >= 2
    /\ resume_path = Resume_cv
    /\ \E m \in 1..Len(sink) :
           /\ sink[m].to # Lower(sink[m].to)
           /\ sink[m].subject # EmptyStr
           /\ sink[m].subject # subject_template
           /\ Contains(sink[m].body, S_br)
           /\ Contains(sink[m].body, V_Ac)

\* ------------------------------------------------------------------------
\* Vocabulary of C21 and C28: the normalized email of an input row, the
\* positions of the rows that carry a normalized email, and the last of them.
\* ------------------------------------------------------------------------
NormEmail(k) == Strip(Lower(get_email(headers_lower, rows[k])))

Carriers(e) == { k \in 1..Len(rows) : NormEmail(k) = e }

LastCarrier(e) == CHOOSE k \in Carriers(e) : \A k2 \in Carriers(e) : k2 <= k

\* ------------------------------------------------------------------------
\* C21: the lookup of generate_emails has exactly the non-empty normalized
\* emails of the input as keys, each mapped to the last row that carries it,
\* and every draft a call has made by its end is resolved against the last
\* row that carries the normalized email of its recipient.
\* ------------------------------------------------------------------------
C21_LastRowWins ==
    (call.fn = "generate_emails" /\ pc \in {"generate", "returned", "raised"}) =>
        /\ DOMAIN rows_by_email = { NormEmail(k) : k \in 1..Len(rows) } \ { EmptyStr }
        /\ \A e \in DOMAIN rows_by_email : rows_by_email[e] = rows[LastCarrier(e)]
        /\ \A m \in 1..(IF pc = "generate" THEN 0 ELSE Len(sink)) :
               LET last == rows[LastCarrier(Strip(Lower(sink[m].to)))]
                   self == PlaceholderResolver(host, headers_lower, last)
               IN  /\ sink[m].row = last
                   /\ sink[m].subject = resolve_text(self, subject_template)
                   /\ sink[m].body = _wrap_in_html(resolve_text(self, sink[m].text))

C21_Witness ==
    /\ Generated
    /\ ~call.dry_run
    /\ Len(sink) = 2
    /\ sink[1].to # sink[2].to
    /\ Strip(Lower(sink[1].to)) = Strip(Lower(sink[2].to))
    /\ rows[1] # rows[2]
    /\ sink[1].subject = sink[2].subject
    /\ sink[1].subject # EmptyStr

\* ------------------------------------------------------------------------
\* C28 as claimed: every draft of a generate_emails call has its subject and
\* its body resolved from the input row behind its preview entry, which is
\* the m-th entry with a template for the m-th draft.
\* ------------------------------------------------------------------------
AssignedEntry(m) ==
    CHOOSE n \in 1..Len(preview_rows) :
        /\ preview_rows[n].template_id # None
        /\ Cardinality({ l \in 1..n : preview_rows[l].template_id # None }) = m

C28_DraftFromRowOfItsEntry ==
    (Generated /\ ~call.dry_run) =>
        \A m \in 1..Len(sink) :
            LET self == PlaceholderResolver(host, headers_lower,
                                            rows[RowOfEntry(Facts, AssignedEntry(m))])
            IN  /\ sink[m].subject = resolve_text(self, subject_template)
                /\ sink[m].body = _wrap_in_html(resolve_text(self, sink[m].text))

\* ------------------------------------------------------------------------
\* C22 as claimed: _wrap_in_html trims the body, replaces each double space
\* by "<br><br>" and each line break by "<br>", removes whole "<br>" markers
\* from the start and the end, keeps every other character in place, and
\* puts the result in the html/body envelope.
\* ------------------------------------------------------------------------
RECURSIVE StripMarkers(_)
StripMarkers(s) ==
    IF Len(s) >= Len(S_br) /\ SubSeq(s, 1, Len(S_br)) = S_br
    THEN StripMarkers(SubSeq(s, Len(S_br) + 1, Len(s)))
    ELSE IF Len(s) >= Len(S_br) /\ SubSeq(s, Len(s) - Len(S_br) + 1, Len(s)) = S_br
    THEN StripMarkers(SubSeq(s, 1, Len(s) - Len(S_br)))
    ELSE s

C22_ClaimedContent(body) ==
    StripMarkers(Strip(str_replace(str_replace(Strip(body), << " "," " >>, S_br \o S_br),
                                   << "\n" >>, S_br)))

\* the envelope is what wraps the empty body: an opening part up to the end
\* of the body tag, and the closing tags
EnvelopeClose == << "<","/","b","o","d","y",">","<","/","h","t","m","l",">" >>

EnvelopeOpen ==
    SubSeq(_wrap_in_html(EmptyStr), 1, Len(_wrap_in_html(EmptyStr)) - Len(EnvelopeClose))

C22_OnlyMarkersRemoved ==
    rpc = "wrapped" =>
        results[1] = EnvelopeOpen \o C22_ClaimedContent(text) \o EnvelopeClose

C24_NameFallback ==
    rpc = "constructed" =>
        LET row == rows[1]
            named == { k \in 1..Len(headers_lower) : headers_lower[k] \in {S_full_name, S_name} }
            fnh == IF named = {} THEN NoHeader
                   ELSE headers_lower[CHOOSE k \in named : \A l \in named : k <= l]
            own == IF named = {} THEN EmptyStr ELSE Trimmed(row, fnh)
            fallback == IF InHeaders(S_name) THEN Trimmed(row, S_name) ELSE EmptyStr
            full == IF own # EmptyStr THEN own ELSE fallback
            pair == parse_name_fn(host, full)
            pv == IF InHeaders(S_prefix) THEN Trimmed(row, S_prefix) ELSE EmptyStr
        IN  /\ resolver.full_name_header = fnh
            /\ resolver.derived[S_full_name] = full
            /\ pair.raises = None
            /\ resolver.derived[S_last_name] = pair.last
            /\ pv = EmptyStr => resolver.derived[S_first_name] = pair.first
            /\ full = EmptyStr =>
                   /\ resolver.derived[S_last_name] = EmptyStr
                   /\ pv = EmptyStr => resolver.derived[S_first_name] = EmptyStr

C24_Witness ==
    /\ rpc = "constructed"
    /\ resolver.full_name_header = S_full_name
    /\ Trimmed(rows[1], S_full_name) = EmptyStr
    /\ resolver.derived[S_full_name] = V_JaneSmith
    /\ resolver.derived[S_last_name] = << "S","m","i","t","h" >>

\* ------------------------------------------------------------------------
\* C25: at every point of a pass the counter of each firm is the number of
\* entries so far assigned by rotation to that firm; a step that changes the
\* counters either starts a pass with none, or emits one entry assigned by
\* rotation and adds exactly 1 to the counter of its firm; a step that emits
\* a manual entry leaves them alone; and a pass over the input without the
\* rows served by an override returns the other entries unchanged.
\* ------------------------------------------------------------------------
RotatedOf(entries, firm) ==
    Cardinality({ m \in 1..Len(entries) : ByRotation(entries[m]) /\ entries[m].firm = firm })

C25_Counters ==
    pc = "preview" =>
        /\ \A firm \in DOMAIN firm_counts : firm_counts[firm] = RotatedOf(out, firm)
        /\ \A m \in 1..Len(out) : ByRotation(out[m]) => out[m].firm \in DOMAIN firm_counts

C25_WithoutOverridden ==
    PassComplete =>
        LET f == Facts
            kept == { k \in 1..Len(rows) : ~(f[k].eligible /\ f[k].override) }
            nth(n) == CHOOSE k \in kept : Cardinality({ l \in kept : l <= k }) = n
            rest == [n \in 1..Cardinality(kept) |-> rows[nth(n)]]
        IN  build_preview_rows(host, rest, headers_lower, templates,
                               recipient_template_overrides, call.only_recipients)
                = SelectSeq(out, LAMBDA e : ~e.is_manual)

C25_Step ==
    /\ firm_counts' # firm_counts =>
           \/ pc' = "preview" /\ i' = 1 /\ firm_counts' = EmptyDict
           \/ /\ Len(out') = Len(out) + 1
              /\ ByRotation(out'[Len(out')])
              /\ LET firm == out'[Len(out')].firm
                 IN  /\ DOMAIN firm_counts' = DOMAIN firm_counts \cup {firm}
                     /\ firm_counts'[firm] = Get(firm_counts, firm, 0) + 1
                     /\ \A g \in DOMAIN firm_counts \ {firm} : firm_counts'[g] = firm_counts[g]
    /\ (pc = "preview" /\ pc' = "preview" /\ Len(out') = Len(out) + 1) =>
           (ByRotation(out'[Len(out')]) \/ firm_counts' = firm_counts)

C25_ManualDoesNotCount ==
    [](C25_Counters /\ C25_WithoutOverridden) /\ [][C25_Step]_vars

C25_Witness ==
    /\ PassComplete
    /\ \E m, n \in 1..Len(out) :
           /\ m < n
           /\ out[m].is_manual
           /\ ByRotation(out[n])
           /\ out[m].firm = out[n].firm
           /\ firm_counts[out[n].firm] = 2
           /\ Cardinality({ l \in 1..Len(out) : out[l].firm = out[n].firm }) = 4

\* ------------------------------------------------------------------------
\* C26: at the end of a pass, for every firm and every two rotatable
\* templates, the earlier one in list order has been assigned by rotation to
\* as many entries of the firm as the later one, or to one more.
\* ------------------------------------------------------------------------
RotatedTo(entries, firm, tid) ==
    Cardinality({ m \in 1..Len(entries) :
                      /\ ByRotation(entries[m])
                      /\ entries[m].firm = firm
                      /\ entries[m].template_id = tid })

C26_RotationBalance ==
    PassComplete =>
        \A m \in 1..Len(out) :
            \A a, b \in 1..Len(Rotatable) :
                a < b =>
                    RotatedTo(out, out[m].firm, Rotatable[a].id)
                        - RotatedTo(out, out[m].firm, Rotatable[b].id) \in {0, 1}

C26_Witness ==
    /\ PassComplete
    /\ Len(Rotatable) = 3
    /\ \E m, n \in 1..Len(out) :
           /\ out[m].firm # out[n].firm
           /\ RotatedTo(out, out[m].firm, Rotatable[1].id) = 1
           /\ RotatedTo(out, out[m].firm, Rotatable[2].id) = 1
           /\ RotatedTo(out, out[m].firm, Rotatable[3].id) = 0
           /\ RotatedTo(out, out[n].firm, Rotatable[1].id) = 1
           /\ RotatedTo(out, out[n].firm, Rotatable[2].id) = 0

\* ------------------------------------------------------------------------
\* C27: the entries of the rows of one firm string are those of a pass over
\* these rows alone, so no row of another firm (a firm that differs in case
\* included) has a part in them, wherever it stands in the input; the rows
\* with an empty or unresolved firm are one such group, of key "".
\* ------------------------------------------------------------------------
RowsOfFirm(firm) ==
    SelectSeq(rows, LAMBDA r : get_firm(headers_lower, r) = firm)

C27_FirmIndependence ==
    PassComplete =>
        /\ \A k \in 1..Len(rows) :
               LET firm == get_firm(headers_lower, rows[k])
               IN  build_preview_rows(host, RowsOfFirm(firm), headers_lower, templates,
                                      recipient_template_overrides, call.only_recipients)
                       = SelectSeq(out, LAMBDA e : e.firm = firm)
        /\ \A firm \in DOMAIN firm_counts : \E m \in 1..Len(out) : out[m].firm = firm

C27_Witness ==
    /\ PassComplete
    /\ Len(out) = 4
    /\ \A m \in 1..4 : ByRotation(out[m])
    /\ out[2].firm # out[1].firm
    /\ Lower(out[2].firm) = Lower(out[1].firm)
    /\ out[3].firm = EmptyStr
    /\ out[1].template_id = out[2].template_id
    /\ out[1].template_id = out[3].template_id
    /\ out[4].firm = out[1].firm
    /\ out[4].template_id # out[1].template_id

\* ------------------------------------------------------------------------
\* C29: the entries of a pass stand for the eligible rows (only_recipients
\* true) or for all rows (only_recipients false), one each and in row order,
\* with the email, the firm and the eligibility of their row; a manual entry
\* has a template_id, an entry without template_id has the name "-" and is
\* not manual, and an ineligible entry has no template_id.
\* ------------------------------------------------------------------------
C29_PreviewShape ==
    PassComplete =>
        LET f == Facts
        IN  /\ Len(out) = IF call.only_recipients THEN Cardinality(EligibleRows(f))
                          ELSE Len(rows)
            /\ \A m \in 1..Len(out) :
                   LET k == RowOfEntry(f, m)
                       e == out[m]
                   IN  /\ e.email = get_email(headers_lower, rows[k])
                       /\ e.email_norm = f[k].email
                       /\ e.firm = f[k].firm
                       /\ e.is_eligible = f[k].eligible
                       /\ call.only_recipients => e.is_eligible
                       /\ e.is_manual => e.template_id # None
                       /\ e.template_id = None => (e.template_name = DASH /\ ~e.is_manual)
                       /\ ~e.is_eligible => e.template_id = None

C29_Witness ==
    /\ PassComplete
    /\ call.only_recipients
    /\ Len(out) = 3
    /\ Len(rows) = 4
    /\ out[1].template_id = None
    /\ out[2].is_manual
    /\ out[2].email # out[2].email_norm

\* ------------------------------------------------------------------------
\* C30: in a profile of the desktop app every entry of the override map names
\* a template of the template list: that is so in a new profile, and creating,
\* importing, renaming, moving, toggling and removing a template and
\* assigning or clearing a recipient's template keep it so (every step of the
\* app but _clear_all); removing a template takes exactly the entries of its
\* id out of the map.
\* ------------------------------------------------------------------------
OverridesValid ==
    \A email \in DOMAIN recipient_template_overrides :
        recipient_template_overrides[email] \in TemplateIds

C30_Step ==
    /\ (OverridesValid /\ ~_clear_all) => OverridesValid'
    /\ \A idx \in 1..Len(templates) :
           (OverridesValid /\ _remove_template(idx)) =>
               recipient_template_overrides' =
                   [email \in { e \in DOMAIN recipient_template_overrides :
                                    recipient_template_overrides[e] # templates[idx].id } |->
                       recipient_template_overrides[email]]

C30_OverridesNameCurrentTemplates == OverridesValid /\ [][C30_Step]_vars

C30_Witness ==
    /\ OverridesValid
    /\ Len(templates) = 1
    /\ uuid_count = 2
    /\ templates[1].id = "uuid2"
    /\ templates[1].manual_only
    /\ Cardinality(DOMAIN recipient_template_overrides) = 2

====
